---------------------------- MODULE Spec2Model ----------------------------
(***************************************************************************)
(* Risk-scoring engine of the AI Health Platform backend: the diabetes     *)
(* predictor (app/ml/diabetes_model.py on app/ml/base_predictor.py), the   *)
(* risk thresholds of app/config.py, and the public prediction endpoints   *)
(* of app/api/predictions.py with the heart and PCOS predictors they load. *)
(*                                                                         *)
(* Numbers.  Python floats are modelled in fixed point:                    *)
(*   - probabilities, risk scores and confidences in units of 1/PScale     *)
(*     (1e-4), one digit finer than the 3 decimals the code rounds to;     *)
(*   - raw clinical values in units of 1/VScale (1e-2), so that 18.5 and   *)
(*     33.6 are exact, except DiabetesPedigreeFunction, which is in units  *)
(*     of 1/DScale (1e-3), so that 0.627 is exact; a product of two raw    *)
(*     values is in units of 1/(VScale*VScale) = 1e-4.                     *)
(***************************************************************************)
EXTENDS Integers, Sequences, FiniteSets, TLC

VARIABLES
    probe,      \* the last call of a pure helper: [fn, args, ret]
    artifacts,  \* what is on disk under models/ for each disease
    predictor,  \* the DiabetesPredictor instance under test (its self.* fields)
    call,       \* the last validate/predict call on that instance and its outcome
    kept,       \* an earlier predict call an observer has written down
    response,   \* the last HTTP response of the public prediction API
    pcos_predictor, \* the module-level _predictor of app/ml/pcos_model.py
    heart_predictor, \* the module-level _predictor of app/ml/heart_model.py
    loads,      \* per disease, how many times its artifact has been loaded
    threads,    \* per thread, where it is inside a get_*_predictor call
    utcnow,     \* the server's clock, in hours
    habit,      \* the row of one habit in the habits table
    habit_logs  \* the rows of habit_logs for that habit, oldest first

vars == <<probe, artifacts, predictor, call, kept, response, pcos_predictor,
          heart_predictor, loads, threads, utcnow, habit, habit_logs>>

---------------------------------------------------------------------------
(* Fixed-point scales *)

PScale == 10000
VScale == 100
DScale == 1000

Whole(n) == n * VScale

Abs(x) == IF x < 0 THEN -x ELSE x
Max2(a, b) == IF a >= b THEN a ELSE b

\* Python's round(x, 3) on a value in units of 1e-4: to the nearest multiple
\* of 1e-3, an exact half going to the even neighbour.
Round3(x) ==
    LET q == x \div 10
        r == x % 10
    IN  IF r < 5 THEN q * 10
        ELSE IF r > 5 THEN (q + 1) * 10
        ELSE IF q % 2 = 0 THEN q * 10 ELSE (q + 1) * 10

---------------------------------------------------------------------------
(* app/config.py: RISK_THRESHOLDS and get_risk_level *)

RISK_LOW == 3000
RISK_MODERATE == 6000

get_risk_level_le(score) ==
    IF score <= RISK_LOW THEN "low"
    ELSE IF score <= RISK_MODERATE THEN "moderate"
    ELSE "high"

get_risk_level(score) ==
    IF score < RISK_LOW THEN "low"
    ELSE IF score < RISK_MODERATE THEN "moderate"
    ELSE "high"

---------------------------------------------------------------------------
(* app/ml/base_predictor.py: calculate_confidence, should_consult_doctor *)

HALF == 5000
CONSULT_RISK == 7000
CONSULT_CONF == 7000
LOW_CONF == 6000

calculate_confidence_nofloor(prediction_proba) ==
    LET max_proba == Max2(prediction_proba[1], prediction_proba[2])
    IN  Round3(Abs(max_proba - HALF) * 2)

calculate_confidence(prediction_proba) ==
    LET max_proba == Max2(prediction_proba[1], prediction_proba[2])
        confidence == Abs(max_proba - HALF) * 2
        floored == Max2(confidence, HALF)
    IN  Round3(floored)

should_consult_doctor_half(risk_score, confidence, ood) ==
    IF risk_score > CONSULT_RISK /\ confidence > CONSULT_CONF THEN TRUE
    ELSE IF confidence < HALF THEN TRUE
    ELSE IF ood THEN TRUE
    ELSE FALSE

\* should_consult_doctor without its out-of-distribution rule.
should_consult_doctor_ignoring_ood(risk_score, confidence, ood) ==
    IF risk_score > CONSULT_RISK /\ confidence > CONSULT_CONF THEN TRUE
    ELSE IF confidence < LOW_CONF THEN TRUE
    ELSE FALSE

should_consult_doctor(risk_score, confidence, ood) ==
    IF risk_score > CONSULT_RISK /\ confidence > CONSULT_CONF THEN TRUE
    ELSE IF confidence < LOW_CONF THEN TRUE
    ELSE IF ood THEN TRUE
    ELSE FALSE

---------------------------------------------------------------------------
(* Request values.  A features dict maps some field names to values; a     *)
(* value is a number (n, in the field's unit) or something that is not a   *)
(* number (a string, None), which Python refuses to compare with a bound.  *)

Num(n) == [t |-> "num", n |-> n]
NonNum == [t |-> "str", n |-> 0]

IsNum(v) == v.t = "num"

---------------------------------------------------------------------------
(* app/ml/diabetes_model.py: DiabetesPredictor.validate_input *)

required_fields ==
    << "Pregnancies", "Glucose", "BloodPressure", "SkinThickness",
       "Insulin", "BMI", "DiabetesPedigreeFunction", "Age" >>

RequiredSet == { required_fields[i] : i \in 1..Len(required_fields) }

\* The whole-number bounds of the validations table, as written in the code.
validations ==
    [ Pregnancies              |-> <<0, 20>>,
      Glucose                  |-> <<40, 400>>,
      BloodPressure            |-> <<40, 200>>,
      SkinThickness            |-> <<0, 100>>,
      Insulin                  |-> <<0, 1000>>,
      BMI                      |-> <<10, 60>>,
      DiabetesPedigreeFunction |-> <<0, 3>>,
      Age                      |-> <<18, 120>> ]

\* The unit a field's values are written in.
Unit(field) == IF field = "DiabetesPedigreeFunction" THEN DScale ELSE VScale

min_val(field) == validations[field][1] * Unit(field)
max_val(field) == validations[field][2] * Unit(field)

\* not min_val <= value <= max_val
OutOfRange_strict(field, value) ==
    ~ (min_val(field) < value /\ value < max_val(field))

OutOfRange(field, value) ==
    ~ (min_val(field) <= value /\ value <= max_val(field))

FirstIndex(S) == IF S = {} THEN 0 ELSE CHOOSE i \in S : \A j \in S : i <= j

\* The first loop: the first required field that is not a key of the dict.
FirstMissing(features) ==
    FirstIndex({ i \in 1..Len(required_fields) :
                    required_fields[i] \notin DOMAIN features })

\* The second loop stops at the first field whose comparison raises (the
\* value is not a number) or whose value is out of range.
FirstOffending(features) ==
    FirstIndex({ i \in 1..Len(required_fields) :
                    \/ ~ IsNum(features[required_fields[i]])
                    \/ OutOfRange(required_fields[i], features[required_fields[i]].n) })

NoMsg == [kind |-> "none", field |-> "", lo |-> 0, hi |-> 0]

\* validate_input returns (is_valid, error_message), or raises TypeError when
\* a bound is compared with a value that is not a number.
validate_input(features) ==
    LET m == FirstMissing(features)
    IN  IF m # 0
        THEN [raised |-> "none", valid |-> FALSE,
              msg |-> [kind |-> "Missing required field", field |-> required_fields[m],
                       lo |-> 0, hi |-> 0]]
        ELSE LET b == FirstOffending(features)
                 f == required_fields[b]
             IN  IF b = 0
                 THEN [raised |-> "none", valid |-> TRUE, msg |-> NoMsg]
                 ELSE IF ~ IsNum(features[f])
                 THEN [raised |-> "TypeError", valid |-> FALSE, msg |-> NoMsg]
                 ELSE [raised |-> "none", valid |-> FALSE,
                       msg |-> [kind |-> "out of range", field |-> f,
                                lo |-> validations[f][1], hi |-> validations[f][2]]]

---------------------------------------------------------------------------
(* app/ml/diabetes_model.py: DiabetesPredictor.prepare_features *)

Tenths(n) == n * (VScale \div 10)

\* The 13 columns in the order the training pipeline records them
\* (the 8 raw columns of the dataset, then the 5 engineered ones).
FeatureOrder ==
    required_fields \o
    << "AgeGroup", "BMI_Category", "Glucose_Category", "BMI_Age", "Glucose_BMI" >>

age_group_of(age) ==
    IF age <= Whole(30) THEN 0
    ELSE IF age <= Whole(45) THEN 1
    ELSE IF age <= Whole(60) THEN 2
    ELSE 3

bmi_cat_of(bmi) ==
    IF bmi < Tenths(185) THEN 0
    ELSE IF bmi < Whole(25) THEN 1
    ELSE IF bmi < Whole(30) THEN 2
    ELSE 3

glucose_cat_of(glucose) ==
    IF glucose < Whole(100) THEN 0
    ELSE IF glucose < Whole(125) THEN 1
    ELSE 2

\* The columns of datasets/diabetes.csv without the Outcome column
PIMA_COLUMNS ==
    << "Pregnancies", "Glucose", "BloodPressure", "SkinThickness",
       "Insulin", "BMI", "DiabetesPedigreeFunction", "Age" >>

\* prepare_data: feature_names = X.columns, the dataset's columns followed by
\* the columns engineer_features has added, in the order it adds them.
training_feature_names ==
    PIMA_COLUMNS \o
    << "AgeGroup", "BMI_Category", "Glucose_Category", "BMI_Age", "Glucose_BMI" >>

\* What each position of the array prepare_features builds holds: the key
\* read into base_values, or the local variable appended after them.
inference_columns ==
    << "Pregnancies", "Glucose", "BloodPressure", "SkinThickness",
       "Insulin", "BMI", "DiabetesPedigreeFunction", "Age",
       "age_group", "bmi_cat", "glucose_cat", "bmi_age", "glucose_bmi" >>

NaN == [nan |-> TRUE, n |-> 0]
Label(k) == [nan |-> FALSE, n |-> k]

\* pd.cut(x, bins, labels) with the default right=True: the label of the
\* interval (bins[i], bins[i+1]] that holds x, NaN when no interval does.
pd_cut(x, bins, labels) ==
    LET hit == { i \in 1..(Len(bins) - 1) : bins[i] < x /\ x <= bins[i + 1] }
    IN  IF hit = {} THEN NaN ELSE Label(labels[CHOOSE i \in hit : TRUE])

AGE_BINS == << Whole(0), Whole(30), Whole(45), Whole(60), Whole(100) >>
BMI_BINS == << Whole(0), Tenths(185), Whole(25), Whole(30), Whole(100) >>
GLUCOSE_BINS == << Whole(0), Whole(100), Whole(125), Whole(200) >>

\* DiabetesModelTrainer.engineer_features on one row of the dataset: the five
\* columns it adds (the products in units of 1e-4).
engineer_features(row) ==
    [ AgeGroup         |-> pd_cut(row["Age"].n, AGE_BINS, << 0, 1, 2, 3 >>),
      BMI_Category     |-> pd_cut(row["BMI"].n, BMI_BINS, << 0, 1, 2, 3 >>),
      Glucose_Category |-> pd_cut(row["Glucose"].n, GLUCOSE_BINS, << 0, 1, 2 >>),
      BMI_Age          |-> row["BMI"].n * row["Age"].n,
      Glucose_BMI      |-> row["Glucose"].n * row["BMI"].n ]

\* prepare_features with the two interaction terms in the other order.
prepare_features_swapped(features) ==
    LET age == features["Age"].n
        bmi == features["BMI"].n
        glucose == features["Glucose"].n
    IN  [ i \in 1..Len(required_fields) |-> features[required_fields[i]].n ] \o
        << Whole(age_group_of(age)), Whole(bmi_cat_of(bmi)),
           Whole(glucose_cat_of(glucose)), glucose * bmi, bmi * age >>

\* base_values + [age_group, bmi_cat, glucose_cat, bmi_age, glucose_bmi];
\* the categories are whole numbers, the two products are in units of 1e-4.
prepare_features(features) ==
    LET age == features["Age"].n
        bmi == features["BMI"].n
        glucose == features["Glucose"].n
    IN  [ i \in 1..Len(required_fields) |-> features[required_fields[i]].n ] \o
        << Whole(age_group_of(age)), Whole(bmi_cat_of(bmi)),
           Whole(glucose_cat_of(glucose)), bmi * age, glucose * bmi >>

---------------------------------------------------------------------------
(* app/ml/base_predictor.py: BaseHealthPredictor.detect_ood *)

OOD_Z == 3
EPS_INV == 1000000

\* abs((value - mean) / (std + 1e-6)) > 3 for a value, mean and std written in
\* units of 1/unit.  std + 1e-6 is positive, so this is
\* |value - mean| - 3 * std > 3e-6, i.e. excess > 3 * unit / 1e6 in grid units;
\* excess is a whole number of grid units, so the quotient may be floored.
ZExceeds(value, mean, std, unit) ==
    LET excess == Abs(value - mean) - OOD_Z * std
    IN  excess > (OOD_Z * unit) \div EPS_INV

NoStats == [none |-> TRUE, d |-> [f \in {} |-> [mean |-> 0, std |-> 0]]]

\* not self.training_stats: None or an empty dict
Falsy(training_stats) == training_stats.none \/ DOMAIN training_stats.d = {}

\* Iterates the items of the dict it is handed and skips the names that have
\* no entry in training_stats.
detect_ood(training_stats, features) ==
    IF Falsy(training_stats) THEN FALSE
    ELSE \E feature \in DOMAIN features :
            /\ feature \in DOMAIN training_stats.d
            /\ ZExceeds(features[feature].n,
                        training_stats.d[feature].mean,
                        training_stats.d[feature].std, Unit(feature))

---------------------------------------------------------------------------
(* The artifact's scaler and classifier.  Both are opaque fitted objects;  *)
(* all the engine relies on is that transform and predict_proba are        *)
(* functions of the object and the vector, and that the two class          *)
(* probabilities sum to 1.  The classifier of an artifact is picked from a *)
(* family indexed by model.offset that, over the family, sends every input *)
(* to every probability of ProbSeq.                                        *)

ProbSeq ==
    << 0, 4, 5, 6, 1496, 1500, 1504, 2000, 2004, 2994, 2995, 2996, 3000,
       3004, 5000, 5994, 5995, 5996, 6000, 6996, 7000, 7004, 7005, 7996,
       8000, 8496, 8500, 8502, 8504, 8505, 9994, 9995, 10000 >>

RECURSIVE SumSeq(_)
SumSeq(q) == IF q = <<>> THEN 0 ELSE Head(q) + SumSeq(Tail(q))

\* self.scaler.transform(X)
transform(scaler, X) == [ i \in 1..Len(X) |-> X[i] - scaler.shift ]

\* self.model.predict_proba(X_scaled)[0]: <<P(class 0), P(class 1)>>
predict_proba(model, X_scaled) ==
    LET k == ((model.offset + SumSeq(X_scaled)) % Len(ProbSeq)) + 1
        p1 == ProbSeq[k]
    IN  << PScale - p1, p1 >>

---------------------------------------------------------------------------
(* app/ml/diabetes_model.py: DiabetesPredictor.explain *)

DTenths(n) == n * (DScale \div 10)

Factor(name, value, impact, modifiable, description) ==
    [ name |-> name, value |-> value, impact |-> impact,
      modifiable |-> modifiable, description |-> description ]

bmi_factor(bmi) ==
    IF bmi >= Whole(30)
    THEN << Factor("BMI", bmi, "high", TRUE, "BMI is in the obese range (>=30)") >>
    ELSE IF bmi >= Whole(25)
    THEN << Factor("BMI", bmi, "medium", TRUE, "BMI is in the overweight range (25-30)") >>
    ELSE << >>

\* glucose_factor with the diabetic range starting at the glucose bin edge 125.
glucose_factor_from_125(glucose) ==
    IF glucose >= Whole(125)
    THEN << Factor("Glucose", glucose, "high", TRUE,
                   "Fasting glucose is in diabetic range (>=126)") >>
    ELSE IF glucose >= Whole(100)
    THEN << Factor("Glucose", glucose, "medium", TRUE,
                   "Fasting glucose is in prediabetic range (100-125)") >>
    ELSE << >>

glucose_factor(glucose) ==
    IF glucose >= Whole(126)
    THEN << Factor("Glucose", glucose, "high", TRUE,
                   "Fasting glucose is in diabetic range (>=126)") >>
    ELSE IF glucose >= Whole(100)
    THEN << Factor("Glucose", glucose, "medium", TRUE,
                   "Fasting glucose is in prediabetic range (100-125)") >>
    ELSE << >>

age_factor(age) ==
    IF age >= Whole(45)
    THEN << Factor("Age", age, "medium", FALSE, "Age increases diabetes risk") >>
    ELSE << >>

bp_factor(bp) ==
    IF bp >= Whole(140)
    THEN << Factor("Blood Pressure", bp, "medium", TRUE,
                   "Blood pressure is elevated (>=140)") >>
    ELSE << >>

pedigree_factor(pedigree) ==
    IF pedigree > DTenths(5)
    THEN << Factor("Family History", pedigree, "medium", FALSE,
                   "Strong family history of diabetes") >>
    ELSE << >>

\* contributing_factors, in the order the code appends them
contributing_factors_of(features) ==
    bmi_factor(features["BMI"].n) \o
    glucose_factor(features["Glucose"].n) \o
    age_factor(features["Age"].n) \o
    bp_factor(features["BloodPressure"].n) \o
    pedigree_factor(features["DiabetesPedigreeFunction"].n)

\* contributing_factors[:n]
Prefix(q, n) == SubSeq(q, 1, IF Len(q) < n THEN Len(q) ELSE n)

Names(q) == [ i \in 1..Len(q) |-> q[i].name ]

DISCLAIMER == " This is a risk assessment, not a medical diagnosis."

\* The narrative: the percentage printed in the first sentence ({:.1f} of
\* prediction*100, i.e. the probability to 3 decimals), the factor names the
\* text cites, and the sentences in order.
explanation_of(prediction, contributing_factors) ==
    LET risk_level == get_risk_level(prediction)
        pct == Round3(prediction)
    IN  IF risk_level = "low"
        THEN [ pct |-> pct, cited |-> << >>,
               text |-> << "Your diabetes risk is LOW (pct%). ",
                           "Your current health metrics are within healthy ranges. ",
                           "Continue maintaining a healthy lifestyle with regular exercise and balanced diet.",
                           DISCLAIMER >> ]
        ELSE IF risk_level = "moderate"
        THEN [ pct |-> pct,
               cited |-> Names(Prefix(contributing_factors, 2)),
               text |-> << "Your diabetes risk is MODERATE (pct%). " >> \o
                        ( IF contributing_factors # << >>
                          THEN << "Key factors: cited. " >> ELSE << >> ) \o
                        << "Consider lifestyle changes such as weight management, regular exercise (150 min/week), ",
                           "and monitoring blood glucose levels. Consult a healthcare provider for personalized advice.",
                           DISCLAIMER >> ]
        ELSE [ pct |-> pct,
               cited |-> Names(Prefix(contributing_factors, 3)),
               text |-> << "Your diabetes risk is HIGH (pct%). " >> \o
                        ( IF contributing_factors # << >>
                          THEN << "Significant factors: cited. " >> ELSE << >> ) \o
                        << "We strongly recommend consulting a healthcare professional for proper screening and personalized guidance. ",
                           "Early intervention can prevent or delay diabetes onset.",
                           DISCLAIMER >> ]

\* explain whose low-risk narrative stops before the disclaimer.
explain_low_without_disclaimer(features, prediction) ==
    LET contributing_factors == contributing_factors_of(features)
        e == explanation_of(prediction, contributing_factors)
    IN  << IF get_risk_level(prediction) = "low"
           THEN [e EXCEPT !.text = SubSeq(e.text, 1, Len(e.text) - 1)]
           ELSE e,
           contributing_factors >>

\* explain(features, prediction) -> (explanation, contributing_factors).  The
\* feature_importance dict it builds from the artifact is never read.
explain(features, prediction) ==
    LET contributing_factors == contributing_factors_of(features)
    IN  << explanation_of(prediction, contributing_factors), contributing_factors >>

---------------------------------------------------------------------------
(* app/ml/diabetes_model.py: DiabetesPredictor.predict *)

NoResult == [none |-> TRUE]

PredictionResult(disease_type, risk_score, risk_level, confidence, explanation, contributing_factors, should_consult, ood_detected) ==
    [ none |-> FALSE,
      disease_type |-> disease_type,
      risk_score |-> risk_score,
      risk_level |-> risk_level,
      confidence |-> confidence,
      explanation |-> explanation,
      contributing_factors |-> contributing_factors,
      should_consult |-> should_consult,
      ood_detected |-> ood_detected ]

\* The calls predict makes on an input validation rejects, and on one it
\* accepts, in the order it makes them.
VALIDATION_ONLY == << "validate_input" >>

ALL_STEPS ==
    << "validate_input", "detect_ood", "prepare_features", "transform",
       "predict_proba", "get_risk_level", "calculate_confidence", "explain",
       "should_consult_doctor" >>

\* predict that looks for out-of-distribution values before it validates.
predict_detecting_ood_first(p, features) ==
    LET v == validate_input(features)
    IN  IF v.raised # "none"
        THEN [ raised |-> v.raised, msg |-> NoMsg, result |-> NoResult,
               steps |-> << "detect_ood", "validate_input" >> ]
        ELSE IF ~ v.valid
        THEN [ raised |-> "ValueError", msg |-> v.msg, result |-> NoResult,
               steps |-> << "detect_ood", "validate_input" >> ]
        ELSE
            LET ood_detected == detect_ood(p.training_stats, features)
                X_scaled == transform(p.scaler, prepare_features(features))
                prediction_proba == predict_proba(p.model, X_scaled)
                risk_score == prediction_proba[2]
                confidence == calculate_confidence(prediction_proba)
                ex == explain(features, risk_score)
            IN  [ raised |-> "none", msg |-> NoMsg,
                  steps |-> << "detect_ood" >> \o ALL_STEPS,
                  result |-> PredictionResult("diabetes", Round3(risk_score),
                                              get_risk_level(risk_score),
                                              confidence, ex[1], ex[2],
                                              should_consult_doctor(risk_score, confidence,
                                                                    ood_detected),
                                              ood_detected) ]

\* predict with the confidence rounded only when the result is built, after
\* the consultation policy has read it.
predict_rounding_confidence_late(p, features) ==
    LET v == validate_input(features)
    IN  IF v.raised # "none"
        THEN [ raised |-> v.raised, msg |-> NoMsg, result |-> NoResult,
               steps |-> VALIDATION_ONLY ]
        ELSE IF ~ v.valid
        THEN [ raised |-> "ValueError", msg |-> v.msg, result |-> NoResult,
               steps |-> VALIDATION_ONLY ]
        ELSE
            LET ood_detected == detect_ood(p.training_stats, features)
                X_scaled == transform(p.scaler, prepare_features(features))
                prediction_proba == predict_proba(p.model, X_scaled)
                risk_score == prediction_proba[2]
                unrounded == Max2(Abs(Max2(prediction_proba[1], prediction_proba[2]) - HALF) * 2,
                                  HALF)
                ex == explain(features, risk_score)
            IN  [ raised |-> "none", msg |-> NoMsg, steps |-> ALL_STEPS,
                  result |-> PredictionResult("diabetes", Round3(risk_score),
                                              get_risk_level(risk_score),
                                              Round3(unrounded), ex[1], ex[2],
                                              should_consult_doctor(risk_score, unrounded,
                                                                    ood_detected),
                                              ood_detected) ]

\* The outcome of predict on a Ready predictor p: the exception it raises,
\* if any, with its message, and the PredictionResult it returns, if any.
predict(p, features) ==
    LET v == validate_input(features)
    IN  IF v.raised # "none"
        THEN [ raised |-> v.raised, msg |-> NoMsg, result |-> NoResult,
               steps |-> VALIDATION_ONLY ]
        ELSE IF ~ v.valid
        THEN [ raised |-> "ValueError", msg |-> v.msg, result |-> NoResult,
               steps |-> VALIDATION_ONLY ]
        ELSE
            LET ood_detected == detect_ood(p.training_stats, features)
                X == prepare_features(features)
                X_scaled == transform(p.scaler, X)
                prediction_proba == predict_proba(p.model, X_scaled)
                risk_score == prediction_proba[2]
                risk_level == get_risk_level(risk_score)
                confidence == calculate_confidence(prediction_proba)
                ex == explain(features, risk_score)
                should_consult == should_consult_doctor(risk_score, confidence, ood_detected)
            IN  [ raised |-> "none", msg |-> NoMsg, steps |-> ALL_STEPS,
                  result |-> PredictionResult("diabetes", Round3(risk_score), risk_level,
                                              confidence, ex[1], ex[2],
                                              should_consult, ood_detected) ]

---------------------------------------------------------------------------
(* app/models/habit.py and app/api/habits.py: one habit and its log *)

HoursPerDay == 24

Never == [none |-> TRUE, n |-> 0]
At(t) == [none |-> FALSE, n |-> t]

\* A Habit row as create_habit stores it: the column defaults
NewHabit ==
    [ id |-> 1, streak_count |-> 0, total_completions |-> 0,
      last_completed_at |-> Never ]

\* (later - earlier).days for two datetimes given in hours
days_between(earlier, later) == (later - earlier) \div HoursPerDay

\* The "Update habit stats" block of log_habit for a completed log at time
\* now: the completion is counted and last_completed_at is set to now first;
\* the streak is then computed against the value just stored.
completed_update(h, now) ==
    LET counted == [ h EXCEPT !.total_completions = @ + 1,
                              !.last_completed_at = At(now) ]
    IN  IF ~ counted.last_completed_at.none
        THEN IF days_between(counted.last_completed_at.n, now) <= 1
             THEN [ counted EXCEPT !.streak_count = @ + 1 ]
             ELSE [ counted EXCEPT !.streak_count = 1 ]
        ELSE [ counted EXCEPT !.streak_count = 1 ]

\* A HabitLog row
HabitLog(habit_id, completed, logged_at) ==
    [ habit_id |-> habit_id, completed |-> completed, logged_at |-> logged_at ]

---------------------------------------------------------------------------
(* Model artifacts on disk, and DiabetesPredictor.__init__ / load_model *)

Diseases == {"diabetes", "heart", "pcos"}

Stat(mean, std) == [mean |-> mean, std |-> std]

\* Statistics of the kind prepare_data records: one entry per column of X,
\* the 8 raw columns and the 5 engineered ones (values close to the PIMA
\* data; each in its column's unit).
FullStats ==
    [ none |-> FALSE,
      d |-> [ Pregnancies              |-> Stat(385, 337),
              Glucose                  |-> Stat(12166, 3044),
              BloodPressure            |-> Stat(7239, 1210),
              SkinThickness            |-> Stat(2911, 879),
              Insulin                  |-> Stat(14067, 8638),
              BMI                      |-> Stat(3246, 688),
              DiabetesPedigreeFunction |-> Stat(472, 331),
              Age                      |-> Stat(3324, 1176),
              AgeGroup                 |-> Stat(65, 85),
              BMI_Category             |-> Stat(250, 70),
              Glucose_Category         |-> Stat(100, 85),
              BMI_Age                  |-> Stat(10850000, 4500000),
              Glucose_BMI              |-> Stat(40000000, 14000000) ] ]

\* An artifact whose statistics cover two raw columns, one of zero variance.
SparseStats ==
    [ none |-> FALSE,
      d |-> [ Pregnancies |-> Stat(200, 0),
              Glucose     |-> Stat(12166, 3044) ] ]

\* Statistics for engineered columns only: no key of a request has an entry.
EngineeredStats ==
    [ none |-> FALSE,
      d |-> [ BMI_Age     |-> Stat(10850000, 4500000),
              Glucose_BMI |-> Stat(40000000, 14000000) ] ]

EmptyStats == [none |-> FALSE, d |-> [f \in {} |-> Stat(0, 0)]]

MissingArtifact == [kind |-> "missing"]
CorruptArtifact == [kind |-> "corrupt"]

DiabetesArtifact(offset, shift, stats) ==
    [ kind |-> "ok",
      model |-> [none |-> FALSE, offset |-> offset],
      scaler |-> [none |-> FALSE, shift |-> shift],
      feature_names |-> [none |-> FALSE, names |-> FeatureOrder],
      training_stats |-> stats,
      version |-> "1.0.0" ]

\* BaseHealthPredictor.__init__ before load_model: every field is None.
NewPredictor ==
    [ state |-> "Uninitialized",
      model |-> [none |-> TRUE, offset |-> 0],
      scaler |-> [none |-> TRUE, shift |-> 0],
      feature_names |-> [none |-> TRUE, names |-> << >>],
      training_stats |-> NoStats ]

\* DiabetesPredictor.load_model: joblib.load and the four assignments inside
\* one try block; whatever goes wrong is re-raised as RuntimeError.
load_model(p, artifact) ==
    IF artifact.kind = "ok"
    THEN [ raised |-> "none",
           p |-> [ state |-> "Ready",
                   model |-> artifact.model,
                   scaler |-> artifact.scaler,
                   feature_names |-> artifact.feature_names,
                   training_stats |-> artifact.training_stats ] ]
    ELSE [ raised |-> "RuntimeError", p |-> [p EXCEPT !.state = "Failed"] ]

---------------------------------------------------------------------------
(* app/ml/heart_model.py: HeartDiseasePredictor *)

None == [none |-> TRUE, n |-> 0]
Some(n) == [none |-> FALSE, n |-> n]

HEART_DEFAULT_NAMES ==
    << "age", "sex", "cp", "trestbps", "chol", "fbs",
       "restecg", "thalach", "exang", "oldpeak", "slope", "ca", "thal" >>

\* A heart or PCOS model package: the classifier, the scaler, the feature
\* names (None when the package has no such key) and the roc_auc of its
\* metrics (None when the package has no metrics or no roc_auc in them).
Package(offset, names, roc_auc) ==
    [ kind |-> "ok",
      model |-> [none |-> FALSE, offset |-> offset],
      scaler |-> [none |-> FALSE, shift |-> 0],
      feature_names |-> names,
      roc_auc |-> roc_auc,
      version |-> "1.0.0" ]

NoNames == [none |-> TRUE, names |-> << >>]
SomeNames(names) == [none |-> FALSE, names |-> names]

NoInstanceYet == [none |-> TRUE]

\* HeartDiseasePredictor.__init__ / _load_model: FileNotFoundError when the
\* path does not exist; whatever pickle.load raises on a file it cannot read.
heart_load_model(artifact) ==
    IF artifact.kind = "missing"
    THEN [raised |-> "FileNotFoundError", p |-> NoInstanceYet]
    ELSE IF artifact.kind # "ok"
    THEN [raised |-> "UnpicklingError", p |-> NoInstanceYet]
    ELSE [ raised |-> "none",
           p |-> [ none |-> FALSE,
                   model |-> artifact.model,
                   scaler |-> artifact.scaler,
                   feature_names |-> IF artifact.feature_names.none
                                     THEN HEART_DEFAULT_NAMES
                                     ELSE artifact.feature_names.names,
                   roc_auc |-> artifact.roc_auc,
                   version |-> artifact.version ] ]

\* input_data.get(key, default)
Get(input_data, key, default) ==
    IF key \in DOMAIN input_data THEN input_data[key] ELSE default

\* A list with item appended when cond holds
AppendIf(q, cond, item) == IF cond THEN Append(q, item) ELSE q

HEART_REC_CONSULT == "Consult a cardiologist for comprehensive heart health evaluation"
HEART_REC_BP == "Your resting blood pressure is elevated. Monitor regularly and discuss with your doctor"
HEART_REC_CHOL == "Consider dietary changes to lower cholesterol levels"
HEART_REC_THALACH == "Low max heart rate during exercise. Discuss cardiac fitness with your doctor"
HEART_REC_CP == "Chest pain symptoms should be evaluated by a healthcare professional"
HEART_REC_ANGINA == "Exercise-induced angina indicates possible coronary issues - seek evaluation"
HEART_REC_DIET == "Maintain a heart-healthy diet low in saturated fats and sodium"
HEART_REC_EXERCISE == "Regular moderate exercise (30 min, 5 days/week) as cleared by your doctor"
HEART_REC_SUGAR == "Elevated fasting blood sugar - consider diabetes screening"

\* _generate_recommendations keeping the first 5 entries only.
heart_generate_recommendations_top5(input_data, risk_level) ==
    LET r1 == << HEART_REC_CONSULT >>
        r2 == AppendIf(r1, Get(input_data, "trestbps", 0) > 140, HEART_REC_BP)
        r3 == AppendIf(r2, Get(input_data, "chol", 0) > 240, HEART_REC_CHOL)
        r4 == AppendIf(r3, Get(input_data, "thalach", 150) < 120, HEART_REC_THALACH)
        r5 == AppendIf(r4, Get(input_data, "cp", 0) > 0, HEART_REC_CP)
        r6 == AppendIf(r5, Get(input_data, "exang", 0) = 1, HEART_REC_ANGINA)
    IN  Prefix(r6, 5)

\* HeartDiseasePredictor._generate_recommendations
heart_generate_recommendations(input_data, risk_level) ==
    LET r1 == << HEART_REC_CONSULT >>
        r2 == AppendIf(r1, Get(input_data, "trestbps", 0) > 140, HEART_REC_BP)
        r3 == AppendIf(r2, Get(input_data, "chol", 0) > 240, HEART_REC_CHOL)
        r4 == AppendIf(r3, Get(input_data, "thalach", 150) < 120, HEART_REC_THALACH)
        r5 == AppendIf(r4, Get(input_data, "cp", 0) > 0, HEART_REC_CP)
        r6 == AppendIf(r5, Get(input_data, "exang", 0) = 1, HEART_REC_ANGINA)
        r7 == IF risk_level \in {"medium", "high"}
              THEN r6 \o << HEART_REC_DIET, HEART_REC_EXERCISE >>
              ELSE r6
        r8 == AppendIf(r7, Get(input_data, "fbs", 0) = 1, HEART_REC_SUGAR)
    IN  Prefix(r8, 6)

\* The risk level the heart and PCOS predictors compute inline
inline_risk_level(risk_probability) ==
    IF risk_probability < RISK_LOW THEN "low"
    ELSE IF risk_probability < RISK_MODERATE THEN "medium"
    ELSE "high"

\* self.model.predict(X)[0]: the class with the larger probability, class 0
\* on a tie
predicted_class(prediction_proba) ==
    IF prediction_proba[2] > prediction_proba[1] THEN 1 ELSE 0

HEART_DEFAULT_ROC == 8500
HEART_DISCLAIMER == "This is a screening tool based on statistical analysis. It is NOT a diagnosis. Please consult a cardiologist for proper evaluation."

NoDict == [none |-> TRUE]

\* HeartDiseasePredictor._prepare_features: the first name of feature_names
\* that is no key of input_data (0 when there is none)
heart_first_missing(p, input_data) ==
    FirstIndex({ i \in 1..Len(p.feature_names) : p.feature_names[i] \notin DOMAIN input_data })

\* HeartDiseasePredictor.predict
heart_predict(p, input_data) ==
    IF heart_first_missing(p, input_data) # 0
    THEN [raised |-> "ValueError", result |-> NoDict]
    ELSE
        LET features == [ i \in 1..Len(p.feature_names) |-> input_data[p.feature_names[i]] ]
            features_scaled == transform(p.scaler, features)
            proba == predict_proba(p.model, features_scaled)
            risk_probability == proba[2]
            risk_level == inline_risk_level(risk_probability)
            model_confidence == IF p.roc_auc.none THEN HEART_DEFAULT_ROC ELSE p.roc_auc.n
        IN  [ raised |-> "none",
              result |-> [ none |-> FALSE,
                           risk_score |-> risk_probability,
                           risk_level |-> risk_level,
                           prediction |-> predicted_class(proba),
                           confidence |-> model_confidence,
                           model_version |-> p.version,
                           recommendations |-> heart_generate_recommendations(input_data, risk_level),
                           disclaimer |-> HEART_DISCLAIMER ] ]

---------------------------------------------------------------------------
(* app/ml/pcos_model.py: PCOSInput, PCOSPredictor, get_pcos_predictor *)

\* PCOSPredictor.__init__ / _load_model: FileNotFoundError when the path does
\* not exist; whatever pickle.load raises on a file it cannot read; KeyError
\* when the package has no feature_names.
pcos_load_model(artifact) ==
    IF artifact.kind = "missing"
    THEN [raised |-> "FileNotFoundError", p |-> NoInstanceYet]
    ELSE IF artifact.kind # "ok"
    THEN [raised |-> "UnpicklingError", p |-> NoInstanceYet]
    ELSE IF artifact.feature_names.none
    THEN [raised |-> "KeyError", p |-> NoInstanceYet]
    ELSE [ raised |-> "none",
           p |-> [ none |-> FALSE,
                   model |-> artifact.model,
                   scaler |-> artifact.scaler,
                   feature_names |-> artifact.feature_names.names,
                   roc_auc |-> artifact.roc_auc,
                   version |-> artifact.version ] ]

\* Python's "x or default" on an optional number: the default replaces None
\* and every falsy number, that is 0.
OrDefault(x, default) == IF x.none \/ x.n = 0 THEN default ELSE x.n

FOLLICLE_DEFAULT == 6
AMH_DEFAULT == 300
LH_DEFAULT == 800
FSH_DEFAULT == 600
WAIST_HIP_DEFAULT == 85

\* a / b of two values in units of 1/VScale, in units of 1/VScale
Quot(a, b) == (a * VScale) \div b

\* The dict feature_mapping of PCOSPredictor._prepare_features (whole numbers
\* as they are, fractional ones in units of 1/VScale)
feature_mapping_of(input_data) ==
    [ Age              |-> input_data.age,
      BMI              |-> input_data.bmi,
      Weight           |-> input_data.weight,
      Cycle_length     |-> input_data.cycle_length,
      Cycle_RI         |-> input_data.cycle_regularity,
      Weight_gain      |-> input_data.weight_gain,
      Hair_growth      |-> input_data.hair_growth,
      Skin_darkening   |-> input_data.skin_darkening,
      Pimples          |-> input_data.pimples,
      Fast_food        |-> input_data.fast_food,
      Regular_Exercise |-> input_data.regular_exercise,
      Follicle_L       |-> OrDefault(input_data.follicle_count_l, FOLLICLE_DEFAULT),
      Follicle_R       |-> OrDefault(input_data.follicle_count_r, FOLLICLE_DEFAULT),
      AMH              |-> OrDefault(input_data.amh, AMH_DEFAULT),
      LH               |-> OrDefault(input_data.lh, LH_DEFAULT),
      FSH              |-> OrDefault(input_data.fsh, FSH_DEFAULT),
      FSH_LH           |-> Quot(OrDefault(input_data.fsh, FSH_DEFAULT),
                                OrDefault(input_data.lh, LH_DEFAULT)),
      Waist_Hip_Ratio  |-> WAIST_HIP_DEFAULT ]

\* PCOSPredictor._prepare_features: one entry per name of feature_names, 0
\* for a name the mapping does not have
pcos_prepare_features(p, input_data) ==
    LET feature_mapping == feature_mapping_of(input_data)
    IN  [ i \in 1..Len(p.feature_names) |->
            IF p.feature_names[i] \in DOMAIN feature_mapping
            THEN feature_mapping[p.feature_names[i]]
            ELSE 0 ]

PCOS_REC_CONSULT == "Consult a gynecologist for comprehensive PCOS evaluation"
PCOS_REC_WEIGHT == "Weight management through balanced diet and exercise may help improve symptoms"
PCOS_REC_CYCLE == "Track your menstrual cycles and discuss irregularities with your doctor"
PCOS_REC_FOOD == "Consider reducing processed foods and adopting a low-glycemic diet"
PCOS_REC_EXERCISE == "Regular physical activity (30 min/day) can help manage PCOS symptoms"
PCOS_REC_HORMONAL == "Discuss hormonal treatments with your doctor for skin/hair symptoms"
PCOS_REC_TESTS == "Consider getting hormonal tests (LH, FSH, AMH, testosterone)"
PCOS_REC_ULTRASOUND == "Ultrasound examination may help confirm diagnosis"

\* PCOSPredictor._generate_recommendations
pcos_generate_recommendations(input_data, risk_level) ==
    LET r1 == << PCOS_REC_CONSULT >>
        r2 == AppendIf(r1, input_data.bmi > Whole(25), PCOS_REC_WEIGHT)
        r3 == AppendIf(r2, input_data.cycle_length >= 3, PCOS_REC_CYCLE)
        r4 == AppendIf(r3, input_data.fast_food = 1, PCOS_REC_FOOD)
        r5 == AppendIf(r4, input_data.regular_exercise = 0, PCOS_REC_EXERCISE)
        r6 == AppendIf(r5, input_data.hair_growth = 1 \/ input_data.pimples = 1, PCOS_REC_HORMONAL)
        r7 == IF risk_level = "high"
              THEN r6 \o << PCOS_REC_TESTS, PCOS_REC_ULTRASOUND >>
              ELSE r6
    IN  Prefix(r7, 5)

PCOS_DEFAULT_ROC == 8000
PCOS_DISCLAIMER == "This is a screening tool based on statistical analysis. It is NOT a diagnosis. Please consult a gynecologist for proper evaluation."

\* PCOSPredictor.predict
pcos_predict(p, input_data) ==
    LET features == pcos_prepare_features(p, input_data)
        features_scaled == transform(p.scaler, features)
        proba == predict_proba(p.model, features_scaled)
        risk_probability == proba[2]
        risk_level == inline_risk_level(risk_probability)
        model_confidence == IF p.roc_auc.none THEN PCOS_DEFAULT_ROC ELSE p.roc_auc.n
    IN  [ raised |-> "none",
          result |-> [ none |-> FALSE,
                       risk_score |-> risk_probability,
                       risk_level |-> risk_level,
                       prediction |-> predicted_class(proba),
                       confidence |-> model_confidence,
                       model_version |-> p.version,
                       recommendations |-> pcos_generate_recommendations(input_data, risk_level),
                       disclaimer |-> PCOS_DISCLAIMER ] ]

\* get_pcos_predictor: the module-level _predictor when it is set; otherwise
\* a new PCOSPredictor, kept in _predictor unless its construction raises.
get_pcos_predictor(cached, artifact) ==
    IF ~cached.none
    THEN [raised |-> "none", p |-> cached, cached |-> cached, loaded |-> FALSE]
    ELSE LET r == pcos_load_model(artifact)
         IN  [raised |-> r.raised, p |-> r.p, cached |-> r.p, loaded |-> TRUE]

---------------------------------------------------------------------------
(* Requests *)

Profile(pregnancies, glucose, bp, skin, insulin, bmi, pedigree, age) ==
    [ Pregnancies              |-> Num(pregnancies),
      Glucose                  |-> Num(glucose),
      BloodPressure            |-> Num(bp),
      SkinThickness            |-> Num(skin),
      Insulin                  |-> Num(insulin),
      BMI                      |-> Num(bmi),
      DiabetesPedigreeFunction |-> Num(pedigree),
      Age                      |-> Num(age) ]

\* The end-to-end example of the specification.
ExampleInput ==
    Profile(Whole(2), Whole(148), Whole(72), Whole(35), Whole(0), Tenths(336), 627, Whole(50))

\* A young, lean profile with every value inside 3 sigma of FullStats.
HealthyInput ==
    Profile(Whole(1), Whole(90), Whole(70), Whole(20), Whole(80), Whole(22), 200, Whole(25))

\* Every raw value inside 3 sigma of FullStats, BMI * Age far outside.
ElderlyObeseInput ==
    Profile(Whole(3), Whole(120), Whole(72), Whole(29), Whole(140), Whole(50), 400, Whole(65))

\* Every value on an edge of a bin or of an explainer rule.
EdgeInput ==
    Profile(Whole(0), Whole(125), Whole(140), Whole(0), Whole(0), Whole(30), 500, Whole(45))

Bases == { ExampleInput, HealthyInput, ElderlyObeseInput, EdgeInput }

Without(features, field) ==
    [ g \in (DOMAIN features) \ {field} |-> features[g] ]

With(features, field, v) == [ features EXCEPT ![field] = v ]

\* Just below, on and just above each bound, and a value that is no number.
EdgeValues(field) ==
    { Num(min_val(field) - 1), Num(min_val(field)),
      Num(max_val(field)), Num(max_val(field) + 1), NonNum }

Perturbed(base) ==
    { Without(base, f) : f \in RequiredSet } \cup
    UNION { { With(base, f, v) : v \in EdgeValues(f) } : f \in RequiredSet }

\* Two fields off at once: an early field and a late one.
DoublyPerturbed(base) ==
    UNION { UNION { { With(With(base, f, v), g, w) : v \in {Num(max_val(f) + 1), NonNum},
                                                      w \in {Num(max_val(g) + 1), NonNum} }
                    \cup { Without(With(base, f, v), g) : v \in {Num(max_val(f) + 1), NonNum} }
                    \cup { Without(With(base, g, v), f) : v \in {Num(max_val(g) + 1), NonNum} }
                    : g \in {"BMI", "Age"} }
            : f \in {"Pregnancies", "Glucose"} }

Inputs == Bases \cup Perturbed(ExampleInput) \cup DoublyPerturbed(HealthyInput)

---------------------------------------------------------------------------
(* State machine of one DiabetesPredictor instance *)

NoProbe == [fn |-> "none", done |-> TRUE]
NoCall == [op |-> "none"]
NoResponse == [disease |-> "none"]
NoLoads == [d \in Diseases |-> 0]
NoThreads == << >>

\* A call that resets the statistics it has read.
self_after_call_dropping_stats(p, features) == [p EXCEPT !.training_stats = NoStats]

\* What predict and validate_input assign to self: nothing.
self_after_call(p, features) == p

\* The artifacts the instance may find on disk: every classifier of the
\* family with the statistics the training pipeline writes, a few of them
\* with other statistics, and no usable file at all.
StatsVariants == { NoStats, EmptyStats, SparseStats, EngineeredStats }

DiabetesArtifacts ==
    { DiabetesArtifact(k, 0, FullStats) : k \in 0..(Len(ProbSeq) - 1) } \cup
    { DiabetesArtifact(k, 1, st) : k \in {0, 12, 27}, st \in StatsVariants } \cup
    { MissingArtifact, CorruptArtifact }

Init ==
    /\ probe = NoProbe
    /\ artifacts \in { [d \in Diseases |-> IF d = "diabetes" THEN a ELSE MissingArtifact]
                        : a \in DiabetesArtifacts }
    /\ predictor = NewPredictor
    /\ call = NoCall
    /\ kept = NoCall
    /\ response = NoResponse
    /\ pcos_predictor = NoInstanceYet
    /\ heart_predictor = NoInstanceYet
    /\ loads = NoLoads
    /\ threads = NoThreads
    /\ utcnow = 0
    /\ habit = NewHabit
    /\ habit_logs = << >>

\* DiabetesPredictor(): __init__ sets the fields to None and calls load_model.
Construct ==
    /\ predictor.state = "Uninitialized"
    /\ LET r == load_model(NewPredictor, artifacts["diabetes"])
       IN  /\ predictor' = r.p
           /\ call' = [op |-> "construct", raised |-> r.raised]
    /\ UNCHANGED <<utcnow, habit, habit_logs, probe, artifacts, kept, response, pcos_predictor, heart_predictor, loads, threads>>

\* predictor.validate_input(features), features drawn from inputs
DoValidate(inputs) ==
    /\ predictor.state = "Ready"
    /\ \E features \in inputs :
          \E v \in {validate_input(features)} :
              /\ call' = [ op |-> "validate", features |-> features,
                           raised |-> v.raised, valid |-> v.valid, msg |-> v.msg,
                           result |-> NoResult ]
              /\ predictor' = self_after_call(predictor, features)

\* predictor.predict(features), features drawn from inputs
DoPredict(inputs) ==
    /\ predictor.state = "Ready"
    /\ \E features \in inputs :
          \E o \in {predict(predictor, features)} :
              /\ call' = [ op |-> "predict", features |-> features,
                           raised |-> o.raised, valid |-> (o.raised = "none"),
                           msg |-> o.msg, result |-> o.result, steps |-> o.steps ]
              /\ predictor' = self_after_call(predictor, features)

Validate ==
    /\ DoValidate(Inputs)
    /\ UNCHANGED <<utcnow, habit, habit_logs, probe, artifacts, kept, response, pcos_predictor, heart_predictor, loads, threads>>

Predict ==
    /\ DoPredict(Inputs)
    /\ UNCHANGED <<utcnow, habit, habit_logs, probe, artifacts, kept, response, pcos_predictor, heart_predictor, loads, threads>>

Next == Construct \/ Validate \/ Predict

Spec == Init /\ [][Next]_vars

---------------------------------------------------------------------------
(* The same instance watched by an observer who writes down one predict    *)
(* call and then counts the predict calls that follow it.                  *)

MaxLater == 2

RepeatInputs ==
    Bases \cup
    { Without(ExampleInput, "Age"),
      With(ExampleInput, "Glucose", Num(max_val("Glucose") + 1)),
      With(ExampleInput, "BMI", NonNum) }

RepeatArtifacts ==
    { DiabetesArtifact(k, 0, FullStats) : k \in {0, 9, 20} } \cup
    { DiabetesArtifact(12, 1, SparseStats) }

InitRepeat ==
    /\ probe = NoProbe
    /\ artifacts \in { [d \in Diseases |-> IF d = "diabetes" THEN a ELSE MissingArtifact]
                        : a \in RepeatArtifacts }
    /\ predictor = NewPredictor
    /\ call = NoCall
    /\ kept = NoCall
    /\ response = NoResponse
    /\ pcos_predictor = NoInstanceYet
    /\ heart_predictor = NoInstanceYet
    /\ loads = NoLoads
    /\ threads = NoThreads
    /\ utcnow = 0
    /\ habit = NewHabit
    /\ habit_logs = << >>

Note(c) ==
    [ op |-> c.op, features |-> c.features, raised |-> c.raised, msg |-> c.msg,
      result |-> c.result, later |-> 0, failed_later |-> FALSE ]

\* The observer's notebook after the call c.
Observed(c) ==
    IF kept.op = "none"
    THEN { kept, Note(c) }
    ELSE { [ kept EXCEPT !.later = IF @ < MaxLater THEN @ + 1 ELSE @,
                         !.failed_later = @ \/ c.raised # "none" ] }

ValidateRepeat ==
    /\ DoValidate(RepeatInputs)
    /\ UNCHANGED <<utcnow, habit, habit_logs, probe, artifacts, kept, response, pcos_predictor, heart_predictor, loads, threads>>

PredictRepeat ==
    /\ DoPredict(RepeatInputs)
    /\ kept' \in Observed(call')
    /\ UNCHANGED <<utcnow, habit, habit_logs, probe, artifacts, response, pcos_predictor, heart_predictor, loads, threads>>

NextRepeat == Construct \/ ValidateRepeat \/ PredictRepeat

SpecRepeat == InitRepeat /\ [][NextRepeat]_vars

---------------------------------------------------------------------------
(* The pure helpers, called on their own *)

\* Scores within 6e-4 of every multiple of 0.05.
NearGrid ==
    { c * 500 + d : c \in 0..20, d \in -6..6 } \cap (0..PScale)

\* No predictor instance is under test while the helpers are called.
NoInstance == [NewPredictor EXCEPT !.state = "Absent"]

\* A pending call: the helper and the arguments it is about to be given.
Pending(fn, args) == [fn |-> fn, args |-> args, done |-> FALSE]

InitPure ==
    /\ \/ \E r \in NearGrid, c \in NearGrid, o \in BOOLEAN :
             probe = Pending("should_consult_doctor",
                             [risk_score |-> r, confidence |-> c, ood |-> o])
       \/ \E sc \in 0..PScale :
             probe = Pending("get_risk_level", [score |-> sc])
       \/ \E p1 \in 0..PScale :
             probe = Pending("calculate_confidence",
                             [prediction_proba |-> << PScale - p1, p1 >>])
    /\ artifacts = [d \in Diseases |-> MissingArtifact]
    /\ predictor = NoInstance
    /\ call = NoCall
    /\ kept = NoCall
    /\ response = NoResponse
    /\ pcos_predictor = NoInstanceYet
    /\ heart_predictor = NoInstanceYet
    /\ loads = NoLoads
    /\ threads = NoThreads
    /\ utcnow = 0
    /\ habit = NewHabit
    /\ habit_logs = << >>

Returned(ret) == [fn |-> probe.fn, args |-> probe.args, done |-> TRUE, ret |-> ret]

ProbeShouldConsult ==
    /\ probe.fn = "should_consult_doctor" /\ ~ probe.done
    /\ probe' = Returned(should_consult_doctor(probe.args.risk_score,
                                               probe.args.confidence, probe.args.ood))
    /\ UNCHANGED <<utcnow, habit, habit_logs, artifacts, predictor, call, kept, response, pcos_predictor, heart_predictor, loads, threads>>

ProbeRiskLevel ==
    /\ probe.fn = "get_risk_level" /\ ~ probe.done
    /\ probe' = Returned(get_risk_level(probe.args.score))
    /\ UNCHANGED <<utcnow, habit, habit_logs, artifacts, predictor, call, kept, response, pcos_predictor, heart_predictor, loads, threads>>

ProbeConfidence ==
    /\ probe.fn = "calculate_confidence" /\ ~ probe.done
    /\ probe' = Returned(calculate_confidence(probe.args.prediction_proba))
    /\ UNCHANGED <<utcnow, habit, habit_logs, artifacts, predictor, call, kept, response, pcos_predictor, heart_predictor, loads, threads>>

NextPure == ProbeShouldConsult \/ ProbeRiskLevel \/ ProbeConfidence

SpecPure == InitPure /\ [][NextPure]_vars

\* The helpers on their own together with the predictor instance: the
\* scoring path from the classifier's probabilities to the reported fields.
SpecScore == (Init \/ InitPure) /\ [][Next \/ NextPure]_vars

---------------------------------------------------------------------------
(* Feature engineering at inference and at training, called on their own *)

Halves(n) == n * (VScale \div 2)

\* Ages validation accepts: the bounds, each bin edge with its neighbours,
\* a fractional age, and the end of the training bins.
AgeEdges ==
    { Whole(a) : a \in {18, 29, 30, 31, 44, 45, 46, 59, 60, 61, 99, 100, 101, 120} }
    \cup { Halves(61), Halves(91) }

\* BMI values validation accepts, in tenths
BmiEdges ==
    { Tenths(b) : b \in {100, 184, 185, 186, 249, 250, 251, 299, 300, 301, 336, 600} }

\* Glucose values validation accepts
GlucoseEdges ==
    { Whole(g) : g \in {40, 99, 100, 101, 124, 125, 126, 148, 199, 200, 201, 400} }
    \cup { Halves(199), Halves(251) }

\* The example profile with the given glucose, BMI and age
EngineeringInput(glucose, bmi, age) ==
    With(With(With(ExampleInput, "Glucose", Num(glucose)), "BMI", Num(bmi)), "Age", Num(age))

InitFeatures ==
    /\ \E g \in GlucoseEdges, b \in BmiEdges, a \in AgeEdges :
          \E fn \in {"prepare_features", "engineer_features"} :
             probe = Pending(fn, [features |-> EngineeringInput(g, b, a)])
    /\ artifacts = [d \in Diseases |-> MissingArtifact]
    /\ predictor = NoInstance
    /\ call = NoCall
    /\ kept = NoCall
    /\ response = NoResponse
    /\ pcos_predictor = NoInstanceYet
    /\ heart_predictor = NoInstanceYet
    /\ loads = NoLoads
    /\ threads = NoThreads
    /\ utcnow = 0
    /\ habit = NewHabit
    /\ habit_logs = << >>

\* prepare_features(features), reached by predict once validate_input has
\* accepted the input
ProbePrepareFeatures ==
    /\ probe.fn = "prepare_features" /\ ~ probe.done
    /\ validate_input(probe.args.features).valid
    /\ probe' = Returned(prepare_features(probe.args.features))
    /\ UNCHANGED <<utcnow, habit, habit_logs, artifacts, predictor, call, kept, response, pcos_predictor, heart_predictor, loads, threads>>

\* engineer_features on a dataset row with the same raw values
ProbeEngineerFeatures ==
    /\ probe.fn = "engineer_features" /\ ~ probe.done
    /\ probe' = Returned(engineer_features(probe.args.features))
    /\ UNCHANGED <<utcnow, habit, habit_logs, artifacts, predictor, call, kept, response, pcos_predictor, heart_predictor, loads, threads>>

NextFeatures == ProbePrepareFeatures \/ ProbeEngineerFeatures

SpecFeatures == InitFeatures /\ [][NextFeatures]_vars

---------------------------------------------------------------------------
(* The diabetes explainer, called on its own *)

\* The example profile with values on, just below and above each rule of
\* the explainer
ExplainInputs ==
    { [ ExampleInput EXCEPT !["BMI"] = Num(b), !["Glucose"] = Num(g),
                            !["Age"] = Num(a), !["BloodPressure"] = Num(bp),
                            !["DiabetesPedigreeFunction"] = Num(dpf) ] :
        b \in {Whole(22), Tenths(249), Whole(25), Tenths(299), Whole(30), Tenths(336)},
        g \in {Whole(99), Whole(100), Whole(125), Whole(126), Whole(148)},
        a \in {Whole(44), Whole(45), Whole(50)},
        bp \in {Whole(72), Whole(139), Whole(140)},
        dpf \in {200, 500, 501, 627} }

\* Risk scores in each band and next to each threshold
ExplainScores == { 0, 1500, RISK_LOW - 1, RISK_LOW, 4500, RISK_MODERATE - 1, RISK_MODERATE, 8500, PScale }

InitExplain ==
    /\ \E f \in ExplainInputs, sc \in ExplainScores :
          probe = Pending("explain", [features |-> f, prediction |-> sc])
    /\ artifacts = [d \in Diseases |-> MissingArtifact]
    /\ predictor = NoInstance
    /\ call = NoCall
    /\ kept = NoCall
    /\ response = NoResponse
    /\ pcos_predictor = NoInstanceYet
    /\ heart_predictor = NoInstanceYet
    /\ loads = NoLoads
    /\ threads = NoThreads
    /\ utcnow = 0
    /\ habit = NewHabit
    /\ habit_logs = << >>

\* explain(features, prediction)
ProbeExplain ==
    /\ probe.fn = "explain" /\ ~ probe.done
    /\ probe' = Returned(explain(probe.args.features, probe.args.prediction))
    /\ UNCHANGED <<utcnow, habit, habit_logs, artifacts, predictor, call, kept, response, pcos_predictor, heart_predictor, loads, threads>>

NextExplain == ProbeExplain

SpecExplain == InitExplain /\ [][NextExplain]_vars

---------------------------------------------------------------------------
(* app/api/predictions.py: the public prediction endpoints *)

DiabetesPredictionRequest(pregnancies, glucose, blood_pressure, skin_thickness, insulin, bmi, diabetes_pedigree, age) ==
    [ pregnancies |-> pregnancies, glucose |-> glucose,
      blood_pressure |-> blood_pressure, skin_thickness |-> skin_thickness,
      insulin |-> insulin, bmi |-> bmi,
      diabetes_pedigree |-> diabetes_pedigree, age |-> age ]

\* Whole numbers as they are; oldpeak in units of 1/VScale.
HeartPredictionRequest(age, sex, cp, trestbps, chol, fbs, restecg, thalach, exang, oldpeak, slope, ca, thal) ==
    [ age |-> age, sex |-> sex, cp |-> cp, trestbps |-> trestbps, chol |-> chol,
      fbs |-> fbs, restecg |-> restecg, thalach |-> thalach, exang |-> exang,
      oldpeak |-> oldpeak, slope |-> slope, ca |-> ca, thal |-> thal ]

\* Whole numbers as they are; bmi, weight, amh, lh and fsh in units of
\* 1/VScale; the five optional fields are None or Some(n).
PCOSPredictionRequest(age, bmi, weight, cycle_length, symptoms, lifestyle, follicles, amh, lh, fsh) ==
    [ age |-> age, bmi |-> bmi, weight |-> weight, cycle_length |-> cycle_length,
      cycle_regularity |-> symptoms[1], weight_gain |-> symptoms[2],
      hair_growth |-> symptoms[3], skin_darkening |-> symptoms[4],
      pimples |-> symptoms[5],
      fast_food |-> lifestyle[1], regular_exercise |-> lifestyle[2],
      follicle_count_l |-> follicles[1], follicle_count_r |-> follicles[2],
      amh |-> amh, lh |-> lh, fsh |-> fsh ]

NoBody == [none |-> TRUE]

\* raise HTTPException(status_code, detail)
HTTPException(disease, status_code, detail) ==
    [disease |-> disease, status |-> status_code, detail |-> detail, body |-> NoBody]

\* The JSON body of a PredictionResult answered with status 200
Ok(disease_type, risk_score, risk_level, confidence, explanation, recommendations, should_consult) ==
    [ disease |-> disease_type, status |-> 200, detail |-> "",
      body |-> [ none |-> FALSE,
                 disease_type |-> disease_type,
                 risk_score |-> risk_score,
                 risk_level |-> risk_level,
                 confidence |-> confidence,
                 explanation |-> explanation,
                 recommendations |-> recommendations,
                 should_consult |-> should_consult ] ]

SERVICE_UNAVAILABLE == 503
INTERNAL_ERROR == 500

\* The two except clauses every endpoint ends with: FileNotFoundError is
\* answered 503, any other exception 500 (the detail names the exception
\* where the code appends its text).
Handled(disease, raised, unavailable) ==
    IF raised = "FileNotFoundError"
    THEN HTTPException(disease, SERVICE_UNAVAILABLE, unavailable)
    ELSE HTTPException(disease, INTERNAL_ERROR, "Prediction failed: " \o raised)

DIABETES_REC_GLUCOSE == "Your glucose level is elevated. Consider monitoring more frequently."
DIABETES_REC_WEIGHT == "Maintaining a healthy weight can reduce diabetes risk."
DIABETES_REC_AGE == "Regular screening is recommended for adults over 45."
DIABETES_REC_CONSULT == "Consult a healthcare provider for proper evaluation."

\* The recommendations predict_diabetes derives from the request
diabetes_recommendations(data) ==
    LET r1 == AppendIf(<< >>, data.glucose > Whole(140), DIABETES_REC_GLUCOSE)
        r2 == AppendIf(r1, data.bmi > Whole(25), DIABETES_REC_WEIGHT)
        r3 == AppendIf(r2, data.age > Whole(45), DIABETES_REC_AGE)
    IN  Append(r3, DIABETES_REC_CONSULT)

\* predict_diabetes: a new DiabetesPredictor for the request, its predict,
\* the response built from the result; the except clauses otherwise.
predict_diabetes(artifact, data) ==
    LET features == Profile(data.pregnancies, data.glucose, data.blood_pressure,
                            data.skin_thickness, data.insulin, data.bmi,
                            data.diabetes_pedigree, data.age)
        made == load_model(NewPredictor, artifact)
        o == predict(made.p, features)
        unavailable == "Diabetes model not available. Please ensure model is trained."
    IN  IF made.raised # "none"
        THEN Handled("diabetes", made.raised, unavailable)
        ELSE IF o.raised # "none"
        THEN Handled("diabetes", o.raised, unavailable)
        ELSE Ok("diabetes", o.result.risk_score, o.result.risk_level,
                o.result.confidence, o.result.explanation,
                Prefix(diabetes_recommendations(data), 5), o.result.should_consult)

\* predict_heart_disease: a new HeartDiseasePredictor for the request, its
\* predict, the response built from the result; the except clauses otherwise.
predict_heart_disease(artifact, data) ==
    LET features == data
        made == heart_load_model(artifact)
        o == heart_predict(made.p, features)
        unavailable == "Heart disease model not available. Please ensure model is trained."
    IN  IF made.raised # "none"
        THEN Handled("heart_disease", made.raised, unavailable)
        ELSE IF o.raised # "none"
        THEN Handled("heart_disease", o.raised, unavailable)
        ELSE Ok("heart_disease", o.result.risk_score, o.result.risk_level,
                o.result.confidence, o.result.disclaimer,
                Prefix(o.result.recommendations, 5),
                o.result.risk_level \in {"medium", "high"})

\* predict_pcos: the PCOSInput of the request, the predictor that
\* get_pcos_predictor returns, its predict, the response built from the
\* result; the except clauses otherwise. Returns the response and the value
\* of the module-level _predictor afterwards.
predict_pcos(cached, artifact, data) ==
    LET pcos_input == data
        got == get_pcos_predictor(cached, artifact)
        o == pcos_predict(got.p, pcos_input)
        unavailable == "PCOS model not available. Please ensure model is trained."
    IN  [ cached |-> got.cached,
          loaded |-> got.loaded /\ got.raised = "none",
          response |->
              IF got.raised # "none"
              THEN Handled("pcos", got.raised, unavailable)
              ELSE Ok("pcos", o.result.risk_score, o.result.risk_level,
                      o.result.confidence, o.result.disclaimer,
                      Prefix(o.result.recommendations, 5),
                      o.result.risk_level \in {"medium", "high"}) ]

---------------------------------------------------------------------------
(* The prediction API of one server process *)

UCI_NAMES == SomeNames(HEART_DEFAULT_NAMES)

\* What may lie at app/models/heart_model.pkl: nothing, a file pickle cannot
\* read, a package as train_heart.py writes it (no metrics), one that has no
\* feature_names, one that carries metrics, one whose feature_names ask for a
\* column the request does not have.
HeartArtifacts ==
    { MissingArtifact, CorruptArtifact,
      Package(3, UCI_NAMES, None), Package(17, UCI_NAMES, None),
      Package(8, NoNames, None), Package(30, UCI_NAMES, Some(9100)),
      Package(5, SomeNames(<< "age", "sex", "bmi" >>), None) }

PCOS_NAMES ==
    << "Age", "BMI", "Weight", "Cycle_length", "Cycle_RI", "Weight_gain",
       "Hair_growth", "Skin_darkening", "Pimples", "Fast_food",
       "Regular_Exercise", "Follicle_L", "Follicle_R", "AMH", "LH", "FSH",
       "FSH_LH", "Waist_Hip_Ratio" >>

\* What may lie at app/models/pcos_model.pkl: nothing, a file pickle cannot
\* read, a package as train_pcos.py writes it, one without metrics, one
\* without feature_names, one whose feature_names hold a column the mapping
\* does not know.
PcosArtifacts ==
    { MissingArtifact, CorruptArtifact,
      Package(4, SomeNames(PCOS_NAMES), Some(8700)),
      Package(19, SomeNames(PCOS_NAMES), Some(8700)),
      Package(26, SomeNames(PCOS_NAMES), None),
      Package(11, NoNames, Some(8700)),
      Package(14, SomeNames(<< "Age", "BMI", "TSH", "FSH_LH" >>), Some(8700)) }

\* What may lie at models/diabetes_model.pkl
ApiDiabetesArtifacts ==
    { MissingArtifact, CorruptArtifact } \cup
    { DiabetesArtifact(k, 0, FullStats) : k \in {2, 7, 13, 21, 29} }

\* Requests the schema DiabetesPredictionRequest accepts: the example of the
\* specification, a healthy profile, one with glucose above the predictor's
\* own bound, a minor, and elevated values on every recommendation rule.
DiabetesRequests ==
    { DiabetesPredictionRequest(Whole(2), Whole(148), Whole(72), Whole(35), Whole(0), Tenths(336), 627, Whole(50)),
      DiabetesPredictionRequest(Whole(1), Whole(90), Whole(70), Whole(20), Whole(80), Whole(22), 200, Whole(25)),
      DiabetesPredictionRequest(Whole(0), Whole(450), Whole(80), Whole(20), Whole(80), Whole(28), 500, Whole(40)),
      DiabetesPredictionRequest(Whole(0), Whole(100), Whole(70), Whole(20), Whole(80), Whole(21), 500, Whole(12)),
      DiabetesPredictionRequest(Whole(4), Whole(141), Whole(90), Whole(30), Whole(120), Tenths(251), 800, Whole(46)) }

\* Requests the schema HeartPredictionRequest accepts
HeartRequests ==
    { HeartPredictionRequest(45, 0, 0, 120, 200, 0, 0, 160, 0, 0, 1, 0, 2),
      HeartPredictionRequest(63, 1, 3, 145, 233, 1, 0, 150, 0, 230, 0, 0, 1),
      HeartPredictionRequest(58, 1, 2, 150, 270, 1, 1, 110, 1, 180, 1, 2, 3),
      HeartPredictionRequest(70, 0, 1, 141, 241, 0, 2, 119, 1, 100, 2, 1, 2),
      HeartPredictionRequest(35, 1, 0, 140, 240, 0, 0, 120, 0, 0, 1, 0, 2) }

\* Requests the schema PCOSPredictionRequest accepts
PcosRequests ==
    { PCOSPredictionRequest(28, Whole(22), Whole(58), 1, <<0, 0, 0, 0, 0>>, <<0, 1>>, <<None, None>>, None, None, None),
      PCOSPredictionRequest(31, Tenths(274), Whole(72), 3, <<1, 1, 1, 0, 1>>, <<1, 0>>, <<Some(12), Some(14)>>, Some(650), Some(1100), Some(500)),
      PCOSPredictionRequest(24, Whole(25), Whole(60), 2, <<0, 0, 0, 1, 1>>, <<1, 1>>, <<Some(0), Some(5)>>, Some(0), Some(0), Some(0)),
      PCOSPredictionRequest(40, Whole(33), Whole(90), 4, <<1, 1, 1, 1, 0>>, <<0, 0>>, <<Some(20), None>>, None, Some(1500), None),
      PCOSPredictionRequest(19, Whole(18), Whole(47), 1, <<0, 0, 1, 0, 0>>, <<0, 1>>, <<None, Some(7)>>, Some(210), None, Some(720)) }

\* How many loads of one artifact are followed
MaxLoads == 2

InitApi ==
    /\ probe = NoProbe
    /\ \E d \in ApiDiabetesArtifacts, h \in HeartArtifacts, c \in PcosArtifacts :
          artifacts = [diabetes |-> d, heart |-> h, pcos |-> c]
    /\ predictor = NoInstance
    /\ call = NoCall
    /\ kept = NoCall
    /\ response = NoResponse
    /\ pcos_predictor = NoInstanceYet
    /\ heart_predictor = NoInstanceYet
    /\ loads = NoLoads
    /\ threads = NoThreads
    /\ utcnow = 0
    /\ habit = NewHabit
    /\ habit_logs = << >>

\* One more successful load of d's artifact when loaded holds
Counted(d, loaded) ==
    [loads EXCEPT ![d] = IF loaded THEN @ + 1 ELSE @]

\* POST /diabetes
PostDiabetes ==
    /\ loads["diabetes"] < MaxLoads
    /\ \E data \in DiabetesRequests :
          response' = predict_diabetes(artifacts["diabetes"], data)
    /\ loads' = Counted("diabetes",
                        load_model(NewPredictor, artifacts["diabetes"]).raised = "none")
    /\ UNCHANGED <<utcnow, habit, habit_logs, probe, artifacts, predictor, call, kept, pcos_predictor,
                   heart_predictor, threads>>

\* POST /heart
PostHeart ==
    /\ loads["heart"] < MaxLoads
    /\ \E data \in HeartRequests :
          response' = predict_heart_disease(artifacts["heart"], data)
    /\ loads' = Counted("heart", heart_load_model(artifacts["heart"]).raised = "none")
    /\ UNCHANGED <<utcnow, habit, habit_logs, probe, artifacts, predictor, call, kept, pcos_predictor,
                   heart_predictor, threads>>

\* POST /pcos
PostPcos ==
    /\ loads["pcos"] < MaxLoads
    /\ \E data \in PcosRequests :
          \E r \in {predict_pcos(pcos_predictor, artifacts["pcos"], data)} :
              /\ response' = r.response
              /\ pcos_predictor' = r.cached
              /\ loads' = Counted("pcos", r.loaded)
    /\ UNCHANGED <<utcnow, habit, habit_logs, probe, artifacts, predictor, call, kept, heart_predictor, threads>>

NextApi == PostDiabetes \/ PostHeart \/ PostPcos

SpecApi == InitApi /\ [][NextApi]_vars

---------------------------------------------------------------------------
(* HeartDiseasePredictor.predict and PCOSPredictor.predict, called on a new *)
(* predictor                                                               *)

\* Heart inputs on both sides of every rule of _generate_recommendations
HeartInputs ==
    { HeartPredictionRequest(58, 1, cp, trestbps, chol, fbs, 1, thalach, exang, 180, 1, 2, 3) :
        cp \in {0, 2}, trestbps \in {140, 141, 145}, chol \in {240, 241},
        fbs \in {0, 1}, thalach \in {119, 120}, exang \in {0, 1} }

\* Heart packages that load: as trained (no metrics), with metrics, with a
\* roc_auc no better than chance
LoadableHeartArtifacts ==
    { Package(k, UCI_NAMES, None) : k \in {0, 3, 9, 17, 22} } \cup
    { Package(30, UCI_NAMES, Some(9100)), Package(12, NoNames, Some(4800)) }

\* PCOS packages that load
LoadablePcosArtifacts ==
    { Package(k, SomeNames(PCOS_NAMES), Some(8700)) : k \in {0, 4, 11, 19, 27} } \cup
    { Package(26, SomeNames(PCOS_NAMES), None),
      Package(14, SomeNames(<< "Age", "BMI", "TSH", "FSH_LH" >>), Some(4800)) }

\* A heart input inside every bound of the request schema
HeartBase == HeartPredictionRequest(58, 1, 2, 130, 230, 0, 1, 150, 0, 180, 1, 2, 3)

\* Dicts a caller of the predictor itself may pass: the base input with one
\* value on or beyond a bound of the request schema, or with one key absent
DirectHeartInputs ==
    { HeartBase } \cup
    { [HeartBase EXCEPT !.trestbps = v] : v \in {0, 79, 80, 200, 201, 300} } \cup
    { [HeartBase EXCEPT !.age = v] : v \in {-5, 19, 20, 100, 101, 150} } \cup
    { [HeartBase EXCEPT !.chol = v] : v \in {99, 100, 600, 601} } \cup
    { [HeartBase EXCEPT !.thalach = v] : v \in {59, 60, 220, 221} } \cup
    { [HeartBase EXCEPT !.cp = v] : v \in {-1, 4} } \cup
    { Without(HeartBase, key) : key \in {"age", "trestbps", "thal", "oldpeak"} }

\* PCOS inputs with each optional field absent, zero, and set, one field at
\* a time
OptionalEdgeRequests ==
    { PCOSPredictionRequest(30, Whole(24), Whole(62), 2, <<0, 1, 0, 0, 1>>, <<1, 1>>, <<l, Some(9)>>, a, Some(950), f) :
        l \in {None, Some(0), Some(15)}, a \in {None, Some(0), Some(420)},
        f \in {None, Some(0), Some(540)} } \cup
    { PCOSPredictionRequest(30, Whole(24), Whole(62), 2, <<0, 1, 0, 0, 1>>, <<1, 1>>, <<Some(9), r>>, Some(250), h, Some(700)) :
        r \in {None, Some(0), Some(15)}, h \in {None, Some(0), Some(1250)} }

InitPredictors ==
    /\ \/ \E h \in LoadableHeartArtifacts, input_data \in HeartInputs :
             /\ artifacts = [diabetes |-> MissingArtifact, heart |-> h, pcos |-> MissingArtifact]
             /\ probe = Pending("heart_predict", [input_data |-> input_data])
       \/ \E h \in LoadableHeartArtifacts, input_data \in DirectHeartInputs :
             /\ artifacts = [diabetes |-> MissingArtifact, heart |-> h, pcos |-> MissingArtifact]
             /\ probe = Pending("heart_predict_direct", [input_data |-> input_data])
       \/ \E c \in LoadablePcosArtifacts, input_data \in PcosRequests :
             /\ artifacts = [diabetes |-> MissingArtifact, heart |-> MissingArtifact, pcos |-> c]
             /\ probe = Pending("pcos_predict", [input_data |-> input_data])
       \/ \E c \in LoadablePcosArtifacts, input_data \in PcosRequests \cup OptionalEdgeRequests :
             /\ artifacts = [diabetes |-> MissingArtifact, heart |-> MissingArtifact, pcos |-> c]
             /\ probe = Pending("pcos_prepare_features", [input_data |-> input_data])
    /\ predictor = NoInstance
    /\ call = NoCall
    /\ kept = NoCall
    /\ response = NoResponse
    /\ pcos_predictor = NoInstanceYet
    /\ heart_predictor = NoInstanceYet
    /\ loads = NoLoads
    /\ threads = NoThreads
    /\ utcnow = 0
    /\ habit = NewHabit
    /\ habit_logs = << >>

\* HeartDiseasePredictor().predict(input_data)
ProbeHeartPredict ==
    /\ probe.fn = "heart_predict" /\ ~ probe.done
    /\ \E made \in {heart_load_model(artifacts["heart"])} :
          /\ made.raised = "none"
          /\ \E o \in {heart_predict(made.p, probe.args.input_data)} :
                /\ o.raised = "none"
                /\ probe' = Returned(o.result)
    /\ UNCHANGED <<utcnow, habit, habit_logs, artifacts, predictor, call, kept, response, pcos_predictor, heart_predictor, loads, threads>>

\* HeartDiseasePredictor().predict(input_data) called with any dict: what it
\* raises, if anything, and what it returns, if anything
ProbeHeartPredictDirect ==
    /\ probe.fn = "heart_predict_direct" /\ ~ probe.done
    /\ \E made \in {heart_load_model(artifacts["heart"])} :
          /\ made.raised = "none"
          /\ probe' = Returned(heart_predict(made.p, probe.args.input_data))
    /\ UNCHANGED <<utcnow, habit, habit_logs, artifacts, predictor, call, kept, response, pcos_predictor, heart_predictor, loads, threads>>

\* PCOSPredictor()._prepare_features(input_data)
ProbePcosPrepareFeatures ==
    /\ probe.fn = "pcos_prepare_features" /\ ~ probe.done
    /\ \E made \in {pcos_load_model(artifacts["pcos"])} :
          /\ made.raised = "none"
          /\ probe' = Returned(pcos_prepare_features(made.p, probe.args.input_data))
    /\ UNCHANGED <<utcnow, habit, habit_logs, artifacts, predictor, call, kept, response, pcos_predictor, heart_predictor, loads, threads>>

\* PCOSPredictor().predict(input_data)
ProbePcosPredict ==
    /\ probe.fn = "pcos_predict" /\ ~ probe.done
    /\ \E made \in {pcos_load_model(artifacts["pcos"])} :
          /\ made.raised = "none"
          /\ \E o \in {pcos_predict(made.p, probe.args.input_data)} :
                probe' = Returned(o.result)
    /\ UNCHANGED <<utcnow, habit, habit_logs, artifacts, predictor, call, kept, response, pcos_predictor, heart_predictor, loads, threads>>

NextPredictors ==
    \/ ProbeHeartPredict
    \/ ProbeHeartPredictDirect
    \/ ProbePcosPredict
    \/ ProbePcosPrepareFeatures

SpecPredictors == InitPredictors /\ [][NextPredictors]_vars

---------------------------------------------------------------------------
(* One user's habit, logged over several days *)

\* How many log_habit calls and how many hours are followed
MaxLogs == 4
MaxHours == 96

\* The clock advances in steps of this many hours
HoursPerTick == 12

InitHabits ==
    /\ probe = NoProbe
    /\ artifacts = [d \in Diseases |-> MissingArtifact]
    /\ predictor = NoInstance
    /\ call = NoCall
    /\ kept = NoCall
    /\ response = NoResponse
    /\ pcos_predictor = NoInstanceYet
    /\ heart_predictor = NoInstanceYet
    /\ loads = NoLoads
    /\ threads = NoThreads
    /\ utcnow = 0
    /\ habit = NewHabit
    /\ habit_logs = << >>

\* Time passes
Tick ==
    /\ utcnow + HoursPerTick <= MaxHours
    /\ utcnow' = utcnow + HoursPerTick
    /\ UNCHANGED <<probe, artifacts, predictor, call, kept, response, pcos_predictor,
                   heart_predictor, loads, threads, habit, habit_logs>>

\* POST /{habit_id}/log for a habit of the current user: the log row is
\* added, the statistics are updated when log_data.completed, the streak is
\* answered.  (The handler's two readings of the clock are less than a day
\* apart.)
LogHabit ==
    /\ Len(habit_logs) < MaxLogs
    /\ \E completed \in BOOLEAN :
          /\ habit_logs' = Append(habit_logs, HabitLog(habit.id, completed, utcnow))
          /\ habit' = IF completed THEN completed_update(habit, utcnow) ELSE habit
          /\ response' = [ disease |-> "none", status |-> 200,
                           message |-> "Habit logged successfully",
                           streak |-> habit'.streak_count ]
    /\ UNCHANGED <<probe, artifacts, predictor, call, kept, pcos_predictor,
                   heart_predictor, loads, threads, utcnow>>

\* POST /{habit_id}/log for an id that is no habit of the current user
LogUnknownHabit ==
    /\ response' = [ disease |-> "none", status |-> 404, detail |-> "Habit not found" ]
    /\ UNCHANGED <<probe, artifacts, predictor, call, kept, pcos_predictor,
                   heart_predictor, loads, threads, utcnow, habit, habit_logs>>

NextHabits == Tick \/ LogHabit \/ LogUnknownHabit

SpecHabits == InitHabits /\ [][NextHabits]_vars

---------------------------------------------------------------------------
(* get_pcos_predictor and get_heart_predictor called from several threads *)

\* How many threads call the getters
NThreads == 2

Threads == 1..NThreads

Getters == {"heart", "pcos"}

\* A predictor object: the fields _load_model has set, and which
\* construction made it (Python's object identity).
Instance(id, p) == [id |-> id] @@ p

\* The module-level _predictor the getter of disease g reads and writes
Cached(g) == IF g = "heart" THEN heart_predictor ELSE pcos_predictor

Idle == [pc |-> "idle", getter |-> "none", made |-> NoInstanceYet, got |-> NoInstanceYet]

\* What may lie at the two paths: nothing, or a package as trained
ThreadArtifacts ==
    { [diabetes |-> MissingArtifact, heart |-> h, pcos |-> c] :
        h \in { MissingArtifact, Package(3, UCI_NAMES, None) },
        c \in { MissingArtifact, Package(4, SomeNames(PCOS_NAMES), Some(8700)) } }

InitThreads ==
    /\ probe = NoProbe
    /\ artifacts \in ThreadArtifacts
    /\ predictor = NoInstance
    /\ call = NoCall
    /\ kept = NoCall
    /\ response = NoResponse
    /\ pcos_predictor = NoInstanceYet
    /\ heart_predictor = NoInstanceYet
    /\ loads = NoLoads
    /\ threads = [t \in Threads |-> Idle]
    /\ utcnow = 0
    /\ habit = NewHabit
    /\ habit_logs = << >>

\* Thread t calls get_heart_predictor() or get_pcos_predictor()
ThreadCall(t) ==
    /\ threads[t].pc = "idle"
    /\ \E g \in Getters :
          threads' = [threads EXCEPT ![t] = [@ EXCEPT !.pc = "check", !.getter = g]]
    /\ UNCHANGED <<utcnow, habit, habit_logs, probe, artifacts, predictor, call, kept, response,
                   pcos_predictor, heart_predictor, loads>>

\* if _predictor is None:
ThreadCheck(t) ==
    /\ threads[t].pc = "check"
    /\ threads' = [threads EXCEPT ![t].pc =
                      IF Cached(threads[t].getter).none THEN "construct" ELSE "return"]
    /\ UNCHANGED <<utcnow, habit, habit_logs, probe, artifacts, predictor, call, kept, response,
                   pcos_predictor, heart_predictor, loads>>

\* The right-hand side of _predictor = PCOSPredictor() (HeartDiseasePredictor()):
\* the constructor reads the artifact; an exception ends the call.
ThreadConstruct(t) ==
    /\ threads[t].pc = "construct"
    /\ loads[threads[t].getter] < MaxLoads
    /\ LET g == threads[t].getter
           r == IF g = "heart" THEN heart_load_model(artifacts[g])
                ELSE pcos_load_model(artifacts[g])
       IN  IF r.raised # "none"
           THEN /\ threads' = [threads EXCEPT ![t].pc = "raised"]
                /\ loads' = loads
           ELSE /\ threads' = [threads EXCEPT ![t] =
                                  [@ EXCEPT !.pc = "store",
                                            !.made = Instance(loads[g] + 1, r.p)]]
                /\ loads' = Counted(g, TRUE)
    /\ UNCHANGED <<utcnow, habit, habit_logs, probe, artifacts, predictor, call, kept, response,
                   pcos_predictor, heart_predictor>>

\* The assignment to the global _predictor
ThreadStore(t) ==
    /\ threads[t].pc = "store"
    /\ threads' = [threads EXCEPT ![t].pc = "return"]
    /\ IF threads[t].getter = "heart"
       THEN heart_predictor' = threads[t].made /\ pcos_predictor' = pcos_predictor
       ELSE pcos_predictor' = threads[t].made /\ heart_predictor' = heart_predictor
    /\ UNCHANGED <<utcnow, habit, habit_logs, probe, artifacts, predictor, call, kept, response, loads>>

\* return _predictor
ThreadReturn(t) ==
    /\ threads[t].pc = "return"
    /\ threads' = [threads EXCEPT ![t] =
                      [@ EXCEPT !.pc = "done", !.got = Cached(threads[t].getter)]]
    /\ UNCHANGED <<utcnow, habit, habit_logs, probe, artifacts, predictor, call, kept, response,
                   pcos_predictor, heart_predictor, loads>>

NextThreads ==
    \E t \in Threads :
        \/ ThreadCall(t)
        \/ ThreadCheck(t)
        \/ ThreadConstruct(t)
        \/ ThreadStore(t)
        \/ ThreadReturn(t)

SpecThreads == InitThreads /\ [][NextThreads]_vars

---------------------------------------------------------------------------
(* Properties *)

\* n thousandths, as a probability
Permille(n) == n * (PScale \div 1000)

Returns(fn) == probe.fn = fn /\ probe.done

\* A predict call that returned a PredictionResult
Predicted == call.op = "predict" /\ call.raised = "none"

\* The consultation policy as the specification writes it
Policy(risk_score, confidence, ood) ==
    \/ (risk_score > Permille(700) /\ confidence > Permille(700))
    \/ confidence < Permille(600)
    \/ ood

\* The risk thresholds as the specification writes them
Threshold(score) ==
    IF score < Permille(300) THEN "low"
    ELSE IF score < Permille(600) THEN "moderate"
    ELSE "high"

Rank(level) == IF level = "low" THEN 0 ELSE IF level = "moderate" THEN 1 ELSE 2

\* C1: should_consult_doctor(risk_score, confidence, ood) returns true exactly
\* when (risk_score > 0.7 and confidence > 0.7) or confidence < 0.6 or ood; in
\* particular it returns true whenever confidence < 0.6.
C1_ConsultPolicy ==
    Returns("should_consult_doctor") =>
        /\ probe.ret = Policy(probe.args.risk_score, probe.args.confidence, probe.args.ood)
        /\ (probe.args.confidence < Permille(600) => probe.ret = TRUE)

\* risk_score 0.1, confidence 0.55, not out of distribution: consult
C1_Witness ==
    /\ Returns("should_consult_doctor")
    /\ probe.args = [risk_score |-> Permille(100), confidence |-> Permille(550), ood |-> FALSE]
    /\ probe.ret = TRUE

\* C2: get_risk_level is the step function low (< 0.3), moderate (0.3 <= score
\* < 0.6), high (>= 0.6), and a higher score never yields a lower level.
C2_RiskLevelStep ==
    Returns("get_risk_level") =>
        /\ probe.args.score < Permille(300) => probe.ret = "low"
        /\ (Permille(300) <= probe.args.score /\ probe.args.score < Permille(600))
              => probe.ret = "moderate"
        /\ probe.args.score >= Permille(600) => probe.ret = "high"
        /\ \A higher \in NearGrid :
              higher >= probe.args.score => Rank(get_risk_level(higher)) >= Rank(probe.ret)

\* score 0.30 is moderate
C2_Witness ==
    /\ Returns("get_risk_level")
    /\ probe.args.score = Permille(300)
    /\ probe.ret = "moderate"

\* C3: for probabilities (p0, p1) summing to 1, calculate_confidence returns
\* max(|max(p0, p1) - 0.5| * 2, 0.5) rounded to 3 decimals, a value in [0.5, 1];
\* and every result of predict has risk_score in [0, 1] and confidence in [0.5, 1].
C3_ConfidenceFloor ==
    /\ Returns("calculate_confidence") =>
          LET p0 == probe.args.prediction_proba[1]
              p1 == probe.args.prediction_proba[2]
              top == IF p0 > p1 THEN p0 ELSE p1
              margin == 2 * (IF top > Permille(500) THEN top - Permille(500)
                                                     ELSE Permille(500) - top)
          IN  /\ probe.ret = Round3(IF margin > Permille(500) THEN margin ELSE Permille(500))
              /\ Permille(500) <= probe.ret /\ probe.ret <= Permille(1000)
    /\ Predicted =>
          /\ 0 <= call.result.risk_score /\ call.result.risk_score <= Permille(1000)
          /\ Permille(500) <= call.result.confidence
          /\ call.result.confidence <= Permille(1000)

\* probabilities (0.4, 0.6): the margin 0.2 is lifted to the floor 0.5
C3_Witness ==
    /\ Returns("calculate_confidence")
    /\ probe.args.prediction_proba = << Permille(400), Permille(600) >>
    /\ probe.ret = Permille(500)

\* The inclusive bounds the specification documents for the diabetes fields
DocumentedBounds ==
    [ Pregnancies              |-> <<0, 20>>,
      Glucose                  |-> <<40, 400>>,
      BloodPressure            |-> <<40, 200>>,
      SkinThickness            |-> <<0, 100>>,
      Insulin                  |-> <<0, 1000>>,
      BMI                      |-> <<10, 60>>,
      DiabetesPedigreeFunction |-> <<0, 3>>,
      Age                      |-> <<18, 120>> ]

FieldMissing(features) == \E f \in RequiredSet : f \notin DOMAIN features

AllNumbers(features) == \A f \in DOMAIN features : IsNum(features[f])

OutsideDocumented(features, f) ==
    \/ features[f].n < DocumentedBounds[f][1] * Unit(f)
    \/ features[f].n > DocumentedBounds[f][2] * Unit(f)

FieldOutside(features) ==
    \E f \in RequiredSet \cap DOMAIN features :
        IsNum(features[f]) /\ OutsideDocumented(features, f)

Rejected ==
    /\ call.op = "validate" => (call.raised = "none" /\ ~ call.valid)
    /\ call.op = "predict" => (call.raised = "ValueError" /\ call.result = NoResult)

Accepted ==
    /\ call.op = "validate" => (call.raised = "none" /\ call.valid)
    /\ call.op = "predict" => (call.raised = "none" /\ call.result # NoResult)

\* C4: a request (a mapping of field names to numbers) with a required field
\* missing, or with a field outside its inclusive bound, is reported invalid by
\* validate_input and makes predict raise the invalid-input error without a
\* PredictionResult; a missing field does so whatever the other values are.  A
\* request with every field inside its bounds, the bounds included, is accepted
\* and its values reach the result unchanged (nothing is clamped).
C4_ValidationRejects ==
    call.op \in {"validate", "predict"} =>
        /\ FieldMissing(call.features) => Rejected
        /\ (AllNumbers(call.features) /\ FieldOutside(call.features)) => Rejected
        /\ ( /\ ~ FieldMissing(call.features)
             /\ AllNumbers(call.features)
             /\ ~ FieldOutside(call.features) ) => Accepted
        /\ Predicted =>
              \A i \in 1..Len(call.result.contributing_factors) :
                  \E f \in DOMAIN call.features :
                      call.result.contributing_factors[i].value = call.features[f].n

\* Glucose a hundredth above 400: predict raises and returns nothing
C4_Witness ==
    /\ call.op = "predict"
    /\ call.features = With(ExampleInput, "Glucose", Num(Whole(400) + 1))
    /\ call.raised = "ValueError"
    /\ call.msg.field = "Glucose"
    /\ call.result = NoResult

\* The value a request has for a column of the training matrix
ColumnValue(features, name) ==
    LET X == prepare_features(features)
        i == CHOOSE k \in 1..Len(FeatureOrder) : FeatureOrder[k] = name
    IN  X[i]

\* Some column with an entry in training_stats has z > 3.  The values are
\* whole numbers of grid units and 3e-6 is less than one grid unit, so
\* |value - mean| / (std + 1e-6) > 3 is |value - mean| > 3 * std on the grid.
SomeColumnFarOut(training_stats, features) ==
    /\ ~ training_stats.none
    /\ \E name \in DOMAIN training_stats.d :
          LET v == ColumnValue(features, name)
              m == training_stats.d[name].mean
              sd == training_stats.d[name].std
              dist == IF v > m THEN v - m ELSE m - v
          IN  dist > 3 * sd

\* C5: ood_detected of a diabetes prediction is true exactly when some feature
\* with an entry in training_stats, raw or engineered, has
\* |value - mean| / (std + 1e-6) > 3; without statistics it is false.
C5_OodIffSomeFeatureFarOut ==
    Predicted =>
        call.result.ood_detected = SomeColumnFarOut(predictor.training_stats, call.features)

\* C6: the risk_level of a PredictionResult is the threshold function (low
\* below 0.3, moderate below 0.6, else high) of that result's risk_score.
C6_LevelMatchesReportedScore ==
    Predicted => call.result.risk_level = Threshold(call.result.risk_score)

\* C7: the should_consult of a PredictionResult is the consultation policy
\* evaluated on that result's risk_score, confidence and ood_detected.
C7_ConsultMatchesReportedFields ==
    Predicted =>
        call.result.should_consult =
            Policy(call.result.risk_score, call.result.confidence, call.result.ood_detected)

\* The classifier said a little over 0.7, the result reports 0.700 with the
\* floor confidence, in distribution, and recommends a consultation.
C7_Witness ==
    /\ Predicted
    /\ call.result.risk_score = Permille(700)
    /\ call.result.confidence = Permille(500)
    /\ ~ call.result.ood_detected
    /\ call.result.should_consult

---------------------------------------------------------------------------
(* Model unavailable at load time *)

\* The disease_type an endpoint answers under
ApiName(d) == IF d = "heart" THEN "heart_disease" ELSE d

\* The last response came from the endpoint of disease d, whose artifact
\* was not on disk when the endpoint looked for it.
AnsweredWithoutArtifact(d) ==
    /\ response.disease = ApiName(d)
    /\ artifacts[d].kind = "missing"

\* C10: when a disease's model artifact cannot be located at load time the
\* public prediction endpoint answers 503 (service unavailable), not the
\* generic 500, and this holds for diabetes, heart and PCOS alike.
C10_MissingArtifactAnswers503 ==
    \A d \in Diseases :
        AnsweredWithoutArtifact(d) => response.status = SERVICE_UNAVAILABLE

\* The part of C10 the heart and PCOS endpoints keep
MissingArtifactAnswers503_HeartPcos ==
    \A d \in {"heart", "pcos"} :
        AnsweredWithoutArtifact(d) => response.status = SERVICE_UNAVAILABLE

\* What the diabetes endpoint answers instead
MissingDiabetesArtifactAnswers500 ==
    AnsweredWithoutArtifact("diabetes") => response.status = INTERNAL_ERROR

\* Each endpoint has answered a request with its artifact missing
HeartAnsweredWithoutArtifact == AnsweredWithoutArtifact("heart")
PcosAnsweredWithoutArtifact == AnsweredWithoutArtifact("pcos")
DiabetesAnsweredWithoutArtifact == AnsweredWithoutArtifact("diabetes")

---------------------------------------------------------------------------
(* One predictor per disease *)

\* C11: across any sequence of prediction requests in one process the
\* predictor of each disease is constructed once: its artifact is loaded at
\* most one time, later requests are served without another load.
C11_LoadedAtMostOnce ==
    \A d \in Diseases : loads[d] <= 1

\* The part of C11 that get_pcos_predictor keeps
PcosLoadedAtMostOnce == loads["pcos"] <= 1

\* A second PCOS request has been answered from the cached predictor
PcosServedFromCache ==
    /\ response.disease = "pcos"
    /\ response.status = 200
    /\ loads["pcos"] = 1
    /\ loads["diabetes"] = 2

---------------------------------------------------------------------------
(* One cached instance under concurrent callers *)

\* Thread t has returned from the getter of disease g
ReturnedFrom(t, g) == threads[t].pc = "done" /\ threads[t].getter = g

\* C12: when several threads call get_pcos_predictor (likewise
\* get_heart_predictor) while the cache is empty, at most one predictor is
\* constructed and every caller receives that same instance.
C12_OneInstanceForAllCallers ==
    \A g \in {"heart", "pcos"} :
        /\ loads[g] <= 1
        /\ \A t, u \in DOMAIN threads :
               ReturnedFrom(t, g) /\ ReturnedFrom(u, g) => threads[t].got = threads[u].got

\* What does hold: a caller that returns, returns a constructed instance
CallerReceivesInstance ==
    \A t \in DOMAIN threads : threads[t].pc = "done" => ~ threads[t].got.none

\* Two callers of get_pcos_predictor have returned different instances
TwoPcosInstances ==
    \E t, u \in DOMAIN threads :
        /\ ReturnedFrom(t, "pcos") /\ ReturnedFrom(u, "pcos")
        /\ threads[t].got.id # threads[u].got.id

---------------------------------------------------------------------------
(* The feature vector *)

\* The training column an inference position corresponds to
TrainingName(column) ==
    CASE column = "age_group"   -> "AgeGroup"
      [] column = "bmi_cat"     -> "BMI_Category"
      [] column = "glucose_cat" -> "Glucose_Category"
      [] column = "bmi_age"     -> "BMI_Age"
      [] column = "glucose_bmi" -> "Glucose_BMI"
      [] OTHER                  -> column

\* The age group the specification documents: <=30, 31-45, 46-60, >60
DocumentedAgeGroup(age) ==
    IF age <= Whole(30) THEN 0
    ELSE IF age <= Whole(45) THEN 1
    ELSE IF age <= Whole(60) THEN 2
    ELSE 3

PreparedVector == Returns("prepare_features")

\* C13: for every valid diabetes input prepare_features returns exactly 13
\* values in the fixed order: the 8 raw values, age_group (0..3 by the
\* documented age ranges), bmi_cat in 0..3, glucose_cat in 0..2, BMI*Age and
\* Glucose*BMI as plain products; length and column order equal the feature
\* order the training pipeline records.
C13_FeatureVectorShape ==
    PreparedVector =>
        LET f == probe.args.features
            X == probe.ret
        IN  /\ Len(X) = 13
            /\ \A i \in 1..8 : X[i] = f[PIMA_COLUMNS[i]].n
            /\ X[9] = Whole(DocumentedAgeGroup(f["Age"].n))
            /\ X[10] \in { Whole(k) : k \in 0..3 }
            /\ X[11] \in { Whole(k) : k \in 0..2 }
            /\ X[12] = f["BMI"].n * f["Age"].n
            /\ X[13] = f["Glucose"].n * f["BMI"].n
            /\ Len(X) = Len(training_feature_names)
            /\ [ i \in 1..Len(inference_columns) |-> TrainingName(inference_columns[i]) ]
                  = training_feature_names
            /\ FeatureOrder = training_feature_names

\* A vector has been prepared for a 46-year-old with distinct products
C13_Witness ==
    /\ PreparedVector
    /\ probe.args.features["Age"].n = Whole(46)
    /\ probe.ret[9] = Whole(2)
    /\ probe.ret[12] # probe.ret[13]

\* C14: for every input validation accepts, the engineered values computed
\* at inference (age group, BMI category, glucose category, BMI*Age,
\* Glucose*BMI) are exactly those engineer_features computes at training for
\* the same raw Age, BMI and Glucose, bin edges and allowed extremes included.
C14_InferenceMatchesTraining ==
    PreparedVector =>
        LET e == engineer_features(probe.args.features)
            X == probe.ret
        IN  /\ ~ e.AgeGroup.nan /\ X[9] = Whole(e.AgeGroup.n)
            /\ ~ e.BMI_Category.nan /\ X[10] = Whole(e.BMI_Category.n)
            /\ ~ e.Glucose_Category.nan /\ X[11] = Whole(e.Glucose_Category.n)
            /\ X[12] = e.BMI_Age
            /\ X[13] = e.Glucose_BMI

\* Where the two do agree: strictly inside the bins, away from every edge
OffEdge(f) ==
    /\ f["BMI"].n \notin {Tenths(185), Whole(25), Whole(30)}
    /\ f["Glucose"].n \notin {Whole(100), Whole(125)}
    /\ f["Glucose"].n <= Whole(200)
    /\ f["Age"].n <= Whole(100)

InferenceMatchesTrainingOffEdge ==
    (PreparedVector /\ OffEdge(probe.args.features)) =>
        LET e == engineer_features(probe.args.features)
            X == probe.ret
        IN  /\ ~ e.AgeGroup.nan /\ X[9] = Whole(e.AgeGroup.n)
            /\ ~ e.BMI_Category.nan /\ X[10] = Whole(e.BMI_Category.n)
            /\ ~ e.Glucose_Category.nan /\ X[11] = Whole(e.Glucose_Category.n)
            /\ X[12] = e.BMI_Age
            /\ X[13] = e.Glucose_BMI

\* Training has no bin for a value inference does categorise
TrainingHasNoBin ==
    /\ Returns("engineer_features")
    /\ probe.ret.Glucose_Category.nan
    /\ probe.ret.AgeGroup.nan

---------------------------------------------------------------------------
(* The explainer's factors and narrative *)

Explained == Returns("explain")

\* The factors named name with the given impact in the list q
FactorsOf(q, name, impact) ==
    { i \in 1..Len(q) : q[i].name = name /\ q[i].impact = impact }

\* q holds one factor named name, of the given impact, exactly when cond
\* holds, and none of the other impact
Exactly(q, name, impact, cond) ==
    Cardinality(FactorsOf(q, name, impact)) = IF cond THEN 1 ELSE 0

\* C15: the explainer evaluates each feature on its own: BMI >= 30 high,
\* 25 <= BMI < 30 medium; Glucose >= 126 high, 100 <= Glucose < 126 medium;
\* Age >= 45, BloodPressure >= 140 and DiabetesPedigreeFunction > 0.5 medium
\* each; at most one factor per feature; the example input has BMI and
\* Glucose as high-impact factors.
C15_FactorsPerFeature ==
    Explained =>
        LET f == probe.args.features
            q == probe.ret[2]
            bmi == f["BMI"].n
            glucose == f["Glucose"].n
        IN  /\ Exactly(q, "BMI", "high", bmi >= Whole(30))
            /\ Exactly(q, "BMI", "medium", Whole(25) <= bmi /\ bmi < Whole(30))
            /\ Exactly(q, "Glucose", "high", glucose >= Whole(126))
            /\ Exactly(q, "Glucose", "medium", Whole(100) <= glucose /\ glucose < Whole(126))
            /\ Exactly(q, "Age", "medium", f["Age"].n >= Whole(45))
            /\ Exactly(q, "Age", "high", FALSE)
            /\ Exactly(q, "Blood Pressure", "medium", f["BloodPressure"].n >= Whole(140))
            /\ Exactly(q, "Blood Pressure", "high", FALSE)
            /\ Exactly(q, "Family History", "medium",
                       f["DiabetesPedigreeFunction"].n > DTenths(5))
            /\ Exactly(q, "Family History", "high", FALSE)
            /\ \A i, j \in 1..Len(q) : q[i].name = q[j].name => i = j
            /\ \A i \in 1..Len(q) :
                   q[i].name \in {"BMI", "Glucose", "Age", "Blood Pressure", "Family History"}
            /\ (f = ExampleInput =>
                   /\ FactorsOf(q, "BMI", "high") # {}
                   /\ FactorsOf(q, "Glucose", "high") # {})

\* The example input has been explained at a low score
C15_Witness ==
    /\ Explained
    /\ probe.args.features = ExampleInput
    /\ probe.args.prediction < RISK_LOW
    /\ Len(probe.ret[2]) = 4

\* C16: in every contributing_factors list the most severe factors come
\* first: no medium factor appears before a high one.
C16_HighBeforeMedium ==
    Explained =>
        LET q == probe.ret[2]
        IN  \A i, j \in 1..Len(q) :
               (q[i].impact = "medium" /\ q[j].impact = "high") => j < i

\* What the order is: the order of the explainer's rules
FactorOrder == << "BMI", "Glucose", "Age", "Blood Pressure", "Family History" >>

FactorsInRuleOrder ==
    Explained =>
        LET q == probe.ret[2]
            pos(name) == CHOOSE k \in 1..Len(FactorOrder) : FactorOrder[k] = name
        IN  \A i, j \in 1..Len(q) : i < j => pos(q[i].name) < pos(q[j].name)

\* C17: for every input and every risk score the explanation ends with the
\* same fixed disclaimer (a risk assessment, not a medical diagnosis),
\* whichever of the three templates is used.
C17_EndsWithDisclaimer ==
    Explained =>
        LET text == probe.ret[1].text
        IN  /\ Len(text) > 0
            /\ text[Len(text)] = DISCLAIMER
            /\ DISCLAIMER = " This is a risk assessment, not a medical diagnosis."

\* The low template has been produced for an input with factors
C17_Witness ==
    /\ Explained
    /\ get_risk_level(probe.args.prediction) = "low"
    /\ Len(probe.ret[2]) > 0
    /\ Len(probe.ret[1].text) = 4

---------------------------------------------------------------------------
(* Heart and PCOS results *)

HeartPredicted == Returns("heart_predict")
PcosPredicted == Returns("pcos_predict")

\* item is one of the entries of the list q
Contains(q, item) == \E i \in 1..Len(q) : q[i] = item

\* C18: the recommendations HeartDiseasePredictor.predict returns contain
\* the elevated-blood-pressure recommendation whenever trestbps > 140 and
\* the exercise-induced-angina recommendation whenever exang = 1, whatever
\* the other inputs and the risk level: the cut to 6 entries removes neither.
C18_HeartRecommendationsKept ==
    HeartPredicted =>
        LET input_data == probe.args.input_data
            recommendations == probe.ret.recommendations
        IN  /\ input_data.trestbps > 140 => Contains(recommendations, HEART_REC_BP)
            /\ input_data.exang = 1 => Contains(recommendations, HEART_REC_ANGINA)

\* Every rule before the angina rule has fired and the angina
\* recommendation is the sixth and last entry
C18_Witness ==
    /\ HeartPredicted
    /\ probe.args.input_data.trestbps = 145
    /\ probe.args.input_data.exang = 1
    /\ Len(probe.ret.recommendations) = 6
    /\ probe.ret.recommendations[6] = HEART_REC_ANGINA

\* C19: the three predictors report risk_level from the same set
\* {low, moderate, high} with the same thresholds: for a given risk score
\* heart and PCOS report the level the diabetes predictor reports.
C19_SameRiskLevelEverywhere ==
    (HeartPredicted \/ PcosPredicted) =>
        /\ probe.ret.risk_level \in {"low", "moderate", "high"}
        /\ probe.ret.risk_level = get_risk_level(probe.ret.risk_score)

\* The band a level names, whichever word is used for the middle one
Band(level) ==
    CASE level = "low" -> 0
      [] level \in {"moderate", "medium"} -> 1
      [] level = "high" -> 2

\* What does hold: the same thresholds, another word for the middle band
SameBandsEverywhere ==
    (HeartPredicted \/ PcosPredicted) =>
        Band(probe.ret.risk_level) = Band(get_risk_level(probe.ret.risk_score))

\* The confidence the margin of a class-1 probability gives
MarginConfidence(p1) == Max2(Abs(Max2(PScale - p1, p1) - HALF) * 2, HALF)

\* C20: the confidence heart and PCOS predict report is derived from the
\* probability margin of that prediction (distance of the larger class
\* probability from 0.5, doubled, floored at 0.5), so it lies in [0.5, 1]
\* for every loadable artifact.
C20_ConfidenceFromMargin ==
    (HeartPredicted \/ PcosPredicted) =>
        /\ HALF <= probe.ret.confidence /\ probe.ret.confidence <= PScale
        /\ probe.ret.confidence = MarginConfidence(probe.ret.risk_score)

\* What the confidence is: the roc_auc stored with the artifact, or the
\* predictor's default when the artifact has none
ConfidenceIsStoredRocAuc ==
    /\ HeartPredicted =>
          probe.ret.confidence = IF artifacts["heart"].roc_auc.none THEN HEART_DEFAULT_ROC
                                 ELSE artifacts["heart"].roc_auc.n
    /\ PcosPredicted =>
          probe.ret.confidence = IF artifacts["pcos"].roc_auc.none THEN PCOS_DEFAULT_ROC
                                 ELSE artifacts["pcos"].roc_auc.n

\* A heart prediction in the middle band has been returned
HeartMediumReturned ==
    /\ HeartPredicted
    /\ probe.ret.risk_level = "medium"

---------------------------------------------------------------------------
(* Out-of-distribution detection is advisory *)

\* The last call was predict on an input validation accepts, on which
\* detect_ood reports true for the predictor's training statistics
PredictCalledOnOod ==
    /\ call.op = "predict"
    /\ validate_input(call.features).raised = "none"
    /\ validate_input(call.features).valid
    /\ detect_ood(predictor.training_stats, call.features)

\* C21: out-of-distribution detection never blocks a diabetes prediction:
\* for every valid input on which detect_ood reports true, predict returns a
\* complete PredictionResult with ood_detected = true and should_consult =
\* true.
C21_OodNeverBlocks ==
    PredictCalledOnOod =>
        /\ call.raised = "none"
        /\ ~ call.result.none
        /\ call.result.ood_detected
        /\ call.result.should_consult
        /\ call.result.risk_level \in {"low", "moderate", "high"}
        /\ Len(call.result.explanation.text) > 0

\* An out-of-distribution input was scored low with a confidence of at
\* least 0.6: only the out-of-distribution rule recommends the consultation
C21_Witness ==
    /\ PredictCalledOnOod
    /\ call.result.risk_level = "low"
    /\ call.result.confidence >= LOW_CONF
    /\ call.result.should_consult

---------------------------------------------------------------------------
(* A feature the request cannot supply *)

ElementsOf(q) == { q[i] : i \in 1..Len(q) }

\* The names the transformer of disease d can supply from a request: the 13
\* keys of the heart request, the 18 keys of the PCOS feature mapping
Suppliable(d) ==
    IF d = "heart" THEN ElementsOf(HEART_DEFAULT_NAMES) ELSE ElementsOf(PCOS_NAMES)

\* The last response came from the endpoint of disease d, whose artifact
\* loads and names a feature the transformer cannot supply
AnsweredWithUnknownFeature(d) ==
    /\ response.disease = ApiName(d)
    /\ artifacts[d].kind = "ok"
    /\ ~ artifacts[d].feature_names.none
    /\ ~ (ElementsOf(artifacts[d].feature_names.names) \subseteq Suppliable(d))

\* C22: if the artifact's feature order names a feature the predictor's
\* transformer cannot supply from the request, predict fails with an error
\* that reaches the caller; no result computed from a substituted default or
\* zero is returned. This holds for the heart and the PCOS predictor.
C22_UnknownFeatureFails ==
    \A d \in {"heart", "pcos"} :
        AnsweredWithUnknownFeature(d) =>
            /\ response.status # 200
            /\ response.body.none

\* The part of C22 the heart predictor keeps
HeartUnknownFeatureFails ==
    AnsweredWithUnknownFeature("heart") =>
        /\ response.status = INTERNAL_ERROR
        /\ response.body.none

\* The PCOS endpoint has answered 200 for an artifact that names a feature
\* the mapping does not have
PcosUnknownFeatureAnswered ==
    /\ AnsweredWithUnknownFeature("pcos")
    /\ response.status = 200

---------------------------------------------------------------------------
(* The consultation flag of heart and PCOS responses *)

\* The last response is a heart or PCOS prediction
HeartOrPcosAnswered ==
    /\ response.disease \in {"heart_disease", "pcos"}
    /\ response.status = 200

\* C23: for heart and PCOS predictions the should_consult delivered to the
\* caller equals the consultation policy, (risk_score > 0.7 and confidence >
\* 0.7) or confidence < 0.6 or ood_detected, evaluated on the risk_score and
\* confidence of the same response (these endpoints detect no
\* out-of-distribution input).
C23_ConsultFollowsPolicy ==
    HeartOrPcosAnswered =>
        response.body.should_consult =
            Policy(response.body.risk_score, response.body.confidence, FALSE)

\* What the flag is: the risk score has reached the middle band
ConsultIsMiddleBandOrAbove ==
    HeartOrPcosAnswered =>
        response.body.should_consult = (response.body.risk_score >= RISK_LOW)

\* A consultation is recommended at a score the policy does not cover
ConsultBelowPolicy ==
    /\ HeartOrPcosAnswered
    /\ response.body.should_consult
    /\ response.body.risk_score < Permille(700)
    /\ response.body.confidence >= Permille(600)

---------------------------------------------------------------------------
(* Validation comes first *)

PredictCalled == call.op = "predict"

\* How many times step occurs in the sequence q
Times(q, step) == Cardinality({ i \in 1..Len(q) : q[i] = step })

NumericSteps ==
    { "detect_ood", "prepare_features", "transform", "predict_proba", "explain" }

\* C24: predict validates before anything else: on an invalid input it
\* raises before OOD detection, feature transformation, scaling, classifier
\* invocation or explanation start, so none of them runs for that call; on a
\* valid input each of them runs exactly once, after validation.
C24_ValidationFirst ==
    PredictCalled =>
        /\ call.steps[1] = "validate_input"
        /\ Times(call.steps, "validate_input") = 1
        /\ IF call.raised # "none"
           THEN \A step \in NumericSteps : Times(call.steps, step) = 0
           ELSE \A step \in NumericSteps : Times(call.steps, step) = 1
        /\ (call.raised # "none") =
              ( \/ validate_input(call.features).raised # "none"
                \/ ~ validate_input(call.features).valid )

\* predict has raised on an input with a value above its bound
C24_Witness ==
    /\ PredictCalled
    /\ call.raised = "ValueError"
    /\ call.result.none
    /\ call.features = With(ExampleInput, "Glucose", Num(max_val("Glucose") + 1))

---------------------------------------------------------------------------
(* Validation in the heart predictor *)

\* The bounds the request schema documents for the whole-number fields
HeartDocumentedBounds ==
    [ age |-> <<20, 100>>, sex |-> <<0, 1>>, cp |-> <<0, 3>>,
      trestbps |-> <<80, 200>>, chol |-> <<100, 600>>, fbs |-> <<0, 1>>,
      restecg |-> <<0, 2>>, thalach |-> <<60, 220>>, exang |-> <<0, 1>>,
      slope |-> <<0, 2>>, ca |-> <<0, 4>>, thal |-> <<0, 3>> ]

HeartFieldMissing(input_data) ==
    \E name \in ElementsOf(HEART_DEFAULT_NAMES) : name \notin DOMAIN input_data

HeartFieldOutside(input_data) ==
    \E name \in DOMAIN HeartDocumentedBounds \cap DOMAIN input_data :
        \/ input_data[name] < HeartDocumentedBounds[name][1]
        \/ input_data[name] > HeartDocumentedBounds[name][2]

HeartCalledDirectly == Returns("heart_predict_direct")

\* The artifact asks for the 13 columns of the dataset
AsksForAllColumns ==
    artifacts["heart"].feature_names.none
        \/ artifacts["heart"].feature_names.names = HEART_DEFAULT_NAMES

\* C25: HeartDiseasePredictor.predict validates its input first: when a
\* required feature is missing or a feature lies outside its documented bound
\* (trestbps outside 80-200, age outside 20-100, ...) it fails with a
\* validation error before scaling or scoring and returns no result.
C25_HeartValidatesFirst ==
    ( /\ HeartCalledDirectly
      /\ \/ HeartFieldMissing(probe.args.input_data)
         \/ HeartFieldOutside(probe.args.input_data) ) =>
        /\ probe.ret.raised = "ValueError"
        /\ probe.ret.result.none

\* The part of C25 that holds: a missing feature raises
HeartMissingFeatureRaises ==
    ( /\ HeartCalledDirectly
      /\ AsksForAllColumns
      /\ HeartFieldMissing(probe.args.input_data) ) =>
        /\ probe.ret.raised = "ValueError"
        /\ probe.ret.result.none

\* A result has been returned for a resting blood pressure of 300
HeartOutOfBoundScored ==
    /\ HeartCalledDirectly
    /\ probe.args.input_data = [HeartBase EXCEPT !.trestbps = 300]
    /\ probe.ret.raised = "none"
    /\ ~ probe.ret.result.none

---------------------------------------------------------------------------
(* The factors the narrative cites *)

\* The list a is a non-empty leading part of the list b
LeadingPart(a, b) ==
    /\ Len(a) > 0
    /\ Len(a) <= Len(b)
    /\ \A i \in 1..Len(a) : a[i] = b[i]

\* An explanation has been produced for an input with at least one factor
ExplainedWithFactors == Explained /\ Len(probe.ret[2]) > 0

\* C26: the narrative template is selected by risk_level and, whenever the
\* contributing-factor list is non-empty, cites its leading factors in
\* evaluation order: the first 2 for moderate, the first 3 for high, and the
\* leading factors for low as well.
C26_NarrativeCitesLeadingFactors ==
    ExplainedWithFactors =>
        LET level == get_risk_level(probe.args.prediction)
            cited == probe.ret[1].cited
            names == Names(probe.ret[2])
        IN  /\ level = "moderate" => cited = Prefix(names, 2)
            /\ level = "high" => cited = Prefix(names, 3)
            /\ level = "low" => LeadingPart(cited, names)

\* The part of C26 that holds: the moderate and high narratives
ModerateAndHighCiteLeadingFactors ==
    ExplainedWithFactors =>
        LET level == get_risk_level(probe.args.prediction)
            cited == probe.ret[1].cited
            names == Names(probe.ret[2])
        IN  /\ level = "moderate" => cited = Prefix(names, 2) /\ LeadingPart(cited, names)
            /\ level = "high" => cited = Prefix(names, 3) /\ LeadingPart(cited, names)

\* The low narrative has been produced for the example input, whose four
\* factors it does not cite
LowNarrativeCitesNothing ==
    /\ ExplainedWithFactors
    /\ probe.args.features = ExampleInput
    /\ get_risk_level(probe.args.prediction) = "low"
    /\ probe.ret[1].cited = << >>

---------------------------------------------------------------------------
(* High risk and the consultation flag *)

\* C27: every PredictionResult of DiabetesPredictor.predict with risk_level
\* 'high' (risk score >= 0.6) has should_consult = true, for every classifier
\* probability and whether or not the input is out of distribution.
C27_HighRiskConsults ==
    (Predicted /\ call.result.risk_level = "high") => call.result.should_consult

\* Where a high-risk result does recommend the consultation: the class-1
\* probability is below 0.8 or above 0.85, or the input is out of
\* distribution
HighRiskConsultsOutsideGap ==
    ( /\ Predicted
      /\ call.result.risk_level = "high"
      /\ \/ call.result.confidence < LOW_CONF
         \/ call.result.confidence > CONSULT_CONF
         \/ call.result.ood_detected ) =>
        call.result.should_consult

\* A high-risk result with confidence between 0.6 and 0.7 that is in
\* distribution does not recommend a consultation
HighRiskWithoutConsult ==
    /\ Predicted
    /\ call.result.risk_level = "high"
    /\ call.result.risk_score >= Permille(800)
    /\ ~ call.result.ood_detected
    /\ ~ call.result.should_consult

---------------------------------------------------------------------------
(* The transformer's categories and the explainer's severities *)

\* The impact of the factor named name in the list q, "none" without one
ImpactOf(q, name) ==
    IF \E i \in 1..Len(q) : q[i].name = name
    THEN q[CHOOSE i \in 1..Len(q) : q[i].name = name].impact
    ELSE "none"

\* C28: for every valid diabetes input the transformer's categories agree
\* with the explainer's severity for the same value: glucose_cat is 2 / 1 / 0
\* exactly when the Glucose factor is high / medium / absent, and bmi_cat is
\* 3 / 2 / below 2 exactly when the BMI factor is high / medium / absent.
C28_CategoriesMatchSeverity ==
    (Explained /\ validate_input(probe.args.features).valid) =>
        LET X == prepare_features(probe.args.features)
            q == probe.ret[2]
            glucose_cat == X[11]
            bmi_cat == X[10]
        IN  /\ (glucose_cat = Whole(2)) = (ImpactOf(q, "Glucose") = "high")
            /\ (glucose_cat = Whole(1)) = (ImpactOf(q, "Glucose") = "medium")
            /\ (glucose_cat = Whole(0)) = (ImpactOf(q, "Glucose") = "none")
            /\ (bmi_cat = Whole(3)) = (ImpactOf(q, "BMI") = "high")
            /\ (bmi_cat = Whole(2)) = (ImpactOf(q, "BMI") = "medium")
            /\ (bmi_cat < Whole(2)) = (ImpactOf(q, "BMI") = "none")

\* The part of C28 that holds: the BMI categories
BmiCategoryMatchesSeverity ==
    (Explained /\ validate_input(probe.args.features).valid) =>
        LET X == prepare_features(probe.args.features)
            q == probe.ret[2]
        IN  /\ (X[10] = Whole(3)) = (ImpactOf(q, "BMI") = "high")
            /\ (X[10] = Whole(2)) = (ImpactOf(q, "BMI") = "medium")
            /\ (X[10] < Whole(2)) = (ImpactOf(q, "BMI") = "none")

\* Glucose 125 has been explained as a medium factor
Glucose125IsMedium ==
    /\ Explained
    /\ probe.args.features["Glucose"].n = Whole(125)
    /\ ImpactOf(probe.ret[2], "Glucose") = "medium"
    /\ glucose_cat_of(Whole(125)) = 2

---------------------------------------------------------------------------
(* Optional PCOS inputs *)

\* A PCOS vector has been prepared for an artifact with the 18 trained columns
PcosPrepared ==
    /\ Returns("pcos_prepare_features")
    /\ artifacts["pcos"].feature_names.names = PCOS_NAMES

\* The value the claim passes to the model: the supplied one, the default
\* only when none was supplied
SuppliedOr(x, default) == IF x.none THEN default ELSE x.n

\* The entry of the prepared vector in the column called name
Column(X, name) == X[CHOOSE i \in 1..Len(PCOS_NAMES) : PCOS_NAMES[i] = name]

\* C29: _prepare_features passes every optional input the caller supplied
\* (follicle counts, amh, lh, fsh) to the model unchanged, a supplied 0
\* included, and uses the defaults (6, 6, 3.0, 8.0, 6.0) only for fields not
\* supplied; the FSH_LH ratio is computed from the values passed as FSH and
\* LH.
C29_SuppliedOptionalsPassUnchanged ==
    PcosPrepared =>
        LET d == probe.args.input_data
            X == probe.ret
        IN  /\ Column(X, "Follicle_L") = SuppliedOr(d.follicle_count_l, FOLLICLE_DEFAULT)
            /\ Column(X, "Follicle_R") = SuppliedOr(d.follicle_count_r, FOLLICLE_DEFAULT)
            /\ Column(X, "AMH") = SuppliedOr(d.amh, AMH_DEFAULT)
            /\ Column(X, "LH") = SuppliedOr(d.lh, LH_DEFAULT)
            /\ Column(X, "FSH") = SuppliedOr(d.fsh, FSH_DEFAULT)
            /\ Column(X, "LH") # 0 =>
                  Column(X, "FSH_LH") = Quot(Column(X, "FSH"), Column(X, "LH"))

\* The part of C29 that holds: the ratio is the quotient of the FSH and LH
\* columns, and the LH column is never 0
RatioOfPassedValues ==
    PcosPrepared =>
        /\ Column(probe.ret, "LH") # 0
        /\ Column(probe.ret, "FSH_LH") =
              Quot(Column(probe.ret, "FSH"), Column(probe.ret, "LH"))

\* Nonzero supplied values do pass unchanged
NonzeroOptionalsPassUnchanged ==
    PcosPrepared =>
        LET d == probe.args.input_data
            X == probe.ret
        IN  /\ (~ d.amh.none /\ d.amh.n # 0) => Column(X, "AMH") = d.amh.n
            /\ (~ d.lh.none /\ d.lh.n # 0) => Column(X, "LH") = d.lh.n
            /\ (~ d.fsh.none /\ d.fsh.n # 0) => Column(X, "FSH") = d.fsh.n
            /\ (~ d.follicle_count_l.none /\ d.follicle_count_l.n # 0) =>
                  Column(X, "Follicle_L") = d.follicle_count_l.n
            /\ (~ d.follicle_count_r.none /\ d.follicle_count_r.n # 0) =>
                  Column(X, "Follicle_R") = d.follicle_count_r.n

\* A supplied AMH of 0 has reached the model as the default 3.0
SuppliedZeroReplaced ==
    /\ PcosPrepared
    /\ probe.args.input_data.amh = Some(0)
    /\ Column(probe.ret, "AMH") = AMH_DEFAULT

---------------------------------------------------------------------------
(* Streaks *)

\* This step is a log_habit call that added a row to habit_logs
Logged == Len(habit_logs') = Len(habit_logs) + 1

\* The streak the claim describes after a completed log at time now
ClaimedStreak(h, now) ==
    IF h.last_completed_at.none THEN 1
    ELSE IF days_between(h.last_completed_at.n, now) <= 1 THEN h.streak_count + 1
    ELSE 1

\* C30: a log_habit call with completed = true increases total_completions
\* by 1 and sets streak_count to the previous streak + 1 when the previous
\* completion was at most one day earlier, and to 1 when it was two or more
\* days earlier or the habit had never been completed; a call with completed
\* = false leaves streak_count, total_completions and last_completed_at
\* unchanged.
C30_StreakRule ==
    [][ Logged =>
          IF habit_logs'[Len(habit_logs')].completed
          THEN /\ habit'.total_completions = habit.total_completions + 1
               /\ habit'.streak_count = ClaimedStreak(habit, utcnow)
          ELSE /\ habit'.streak_count = habit.streak_count
               /\ habit'.total_completions = habit.total_completions
               /\ habit'.last_completed_at = habit.last_completed_at ]_vars

\* What the handler does: every completed log adds 1 to the streak and to
\* the completions, whatever the gap; an uncompleted one changes nothing
StreakCountsCompletions ==
    /\ habit.streak_count = habit.total_completions
    /\ habit.total_completions =
          Cardinality({ i \in 1..Len(habit_logs) : habit_logs[i].completed })

\* Two completions two or more days apart have left a streak of 2
StreakSurvivesGap ==
    /\ Len(habit_logs) = 2
    /\ habit_logs[1].completed /\ habit_logs[2].completed
    /\ days_between(habit_logs[1].logged_at, habit_logs[2].logged_at) >= 2
    /\ habit.streak_count = 2

=============================================================================
